---- MODULE Spec2Model ----
(***************************************************************************)
(* Notification routes of the real-estate listing backend                  *)
(* (server/routes/notifications.ts): sendNotification, deleteNotification  *)
(* and the system-triggered helpers, over the collections users,           *)
(* notifications and user_notifications.                                   *)
(*                                                                         *)
(* Every handler is an async function: each awaited storage call is one    *)
(* atomic step of the request that makes it, together with the synchronous *)
(* code that follows it up to the next awaited call.  Requests of several  *)
(* processes interleave between those steps.  A storage call either        *)
(* succeeds or throws (parameter ok; at most MaxFaults calls throw in one   *)
(* run, and the update of a catch block may throw after the call that led  *)
(* to it).  The step that answers a request                                *)
(* (res.json, or the return of a helper) puts the answer in out.           *)
(*                                                                         *)
(* Three browser components of the same application are modelled beside   *)
(* the routes: the install banner (client/components/PWAInstallButton.tsx) *)
(* with the localStorage keys it keeps, the image viewer                   *)
(* (client/components/ImageModal.tsx) and the iOS install guide            *)
(* (PWAInstallPrompt), which uses the same localStorage keys.  One event   *)
(* handler, with the effects React runs after it, is one atomic step.      *)
(***************************************************************************)
EXTENDS Integers, Sequences, FiniteSets

VARIABLES
    users,               \* collection users: user id (1..Len) -> userType
    notifications,       \* collection notifications: set of records
    user_notifications,  \* collection user_notifications: set of records
    nextId,              \* next ObjectId the store hands out on insertOne
    now,                 \* Date.now(), in milliseconds
    ticks,               \* number of clock advances so far
    proc,                \* per request slot: handler, position, arguments, locals
    out,                 \* the response (or return value) emitted by the last step
    faults,              \* storage calls that have thrown so far
    pwa,                 \* PWAInstallButton: its useState values and its window
    localStorage,        \* keys "pwa-installed" and "pwa-install-dismissed"
    modal,               \* ImageModal: its props and useState values
    guide                \* PWAInstallPrompt: its useState values and its window

vars == <<users, notifications, user_notifications, nextId, now, ticks, proc,
          out, faults, pwa, localStorage, modal, guide>>

\* the state of the routes, and the state of the browser components
server == <<users, notifications, user_notifications, nextId, now, ticks, proc,
            out, faults>>
client == <<pwa, localStorage, modal, guide>>

db == <<notifications, user_notifications>>

----------------------------------------------------------------------------
(* Bounds of the model *)

\* notifications the store will hold identifiers for
MaxNotifs == 2
\* clock advances
MaxTicks == 2
\* length of a specificUsers list in a request
MaxList == 2
\* size of the users collection when the population is drawn freely
NumUsers == 2
\* storage calls that throw in one run
MaxFaults == 1
\* images the viewer is opened with
MaxImages == 2
\* largest mouse coordinate, on either axis
MaxCoord == 1
\* largest pan offset, in either direction on either axis
MaxPan == 1
\* handleInstallClick calls suspended at one time
MaxClicks == 2
\* calls of prompt() on one captured event
MaxPromptCalls == 2

\* the requests in flight at one time
Procs == {"a", "b"}

----------------------------------------------------------------------------
(* Values *)

UserTypes == {"buyer", "seller", "agent", "admin"}

\* the users collection of the running system: a buyer, a seller and a
\* staff account that is no notification target
Population == <<"buyer", "seller", "admin">>

\* a field that is absent from a document
Absent == 0 - 1

OneHourMs == 60 * 60 * 1000
OneDayMs == 24 * 60 * 60 * 1000

\* Identifier strings are modelled by integers: a positive integer is a
\* well-formed 24-hex-digit string, anything else is a malformed one.
ObjectIdIsValid(s) == s > 0

\* an optional value: {} is undefined, {x} is x
Undefined == {}
Some(x) == {x}
TheValue(o) == CHOOSE x \in o : TRUE

\* JavaScript truthiness of `specificUsers && specificUsers.length > 0`
NonEmptyList(o) == o # Undefined /\ Len(TheValue(o)) > 0

Range(s) == {s[i] : i \in 1..Len(s)}

RECURSIVE SortedSeq(_)
\* the documents of a find() in natural (insertion) order, by user id
SortedSeq(S) ==
    IF S = {} THEN <<>>
    ELSE LET m == CHOOSE x \in S : \A y \in S : x <= y
         IN  <<m>> \o SortedSeq(S \ {m})

----------------------------------------------------------------------------
(* Audience resolution, sendNotification lines 106-140 *)

\* variant: "agents" is read as the sellers
AudienceTypes_AgentsAsSellers(audience) ==
    CASE audience = "buyers"  -> {"buyer"}
      [] audience = "sellers" -> {"seller"}
      [] audience = "agents"  -> {"seller"}
      [] OTHER                -> {"buyer", "seller", "agent"}

\* the userType values the audience switch puts in the filter
AudienceTypes(audience) ==
    CASE audience = "buyers"  -> {"buyer"}
      [] audience = "sellers" -> {"seller"}
      [] audience = "agents"  -> {"agent"}
      [] OTHER                -> {"buyer", "seller", "agent"}

\* TRUE when building the filter throws (new ObjectId of a malformed string)
FilterThrows(audience, specificUsers) ==
    /\ audience = "specific"
    /\ NonEmptyList(specificUsers)
    /\ \E s \in Range(TheValue(specificUsers)) : ~ObjectIdIsValid(s)

\* the ids of the users matching recipientFilter
ResolveRecipients(us, audience, specificUsers) ==
    IF audience = "specific" /\ NonEmptyList(specificUsers)
    THEN {u \in DOMAIN us : u \in Range(TheValue(specificUsers))}
    ELSE {u \in DOMAIN us : us[u] \in AudienceTypes(audience)}

----------------------------------------------------------------------------
(* Request slots *)

NoResp == [op |-> "none", code |-> 0, error |-> "none", status |-> "none",
           notificationId |-> 0, recipientCount |-> 0, audience |-> "none",
           ret |-> FALSE, log |-> "none", userId |-> 0, propertyId |-> "none",
           deliveryDetails |-> 0]

Idle == [op |-> "none", pc |-> "idle", type |-> "none", audience |-> "none",
         specificUsers |-> Undefined, scheduled |-> FALSE,
         recipients |-> <<>>, notificationId |-> 0, i |-> 0,
         emailsSent |-> 0, pushNotificationsSent |-> 0,
         failedDeliveries |-> 0, errorDetails |-> <<>>,
         userId |-> 0, propertyId |-> "none", id |-> 0, createdAt |-> Absent,
         since |-> 0]

\* the request of slot p goes on to its next awaited call
Goes(p, s) ==
    /\ proc' = [proc EXCEPT ![p] = s]
    /\ out' = NoResp
    /\ UNCHANGED client

\* the request of slot p is answered with r and ends
Answers(p, r) ==
    /\ proc' = [proc EXCEPT ![p] = Idle]
    /\ out' = r
    /\ UNCHANGED client

ErrorResp(op, code, error) ==
    [NoResp EXCEPT !.op = op, !.code = code, !.error = error]

\* variant: the catch block returns true as well
Returned_AlwaysTrue(op, uid, pid, b, log) ==
    [NoResp EXCEPT !.op = op, !.ret = TRUE, !.userId = uid, !.propertyId = pid,
                   !.log = log, !.error = IF b THEN "none" ELSE "caught"]

\* the boolean a system-triggered helper returns: false from its catch block,
\* true after the "skipping" log line or after the last update
Returned(op, uid, pid, b, log) ==
    [NoResp EXCEPT !.op = op, !.ret = b, !.userId = uid, !.propertyId = pid,
                   !.log = log, !.error = IF b THEN "none" ELSE "caught"]

\* the awaited storage call of this step returns (ok) or throws
Storage(ok) ==
    /\ ok \/ faults < MaxFaults
    /\ faults' = IF ok THEN faults ELSE faults + 1

\* the awaited storage call of a catch block returns or throws: it is made
\* right after a call that threw, and may throw as well whatever has thrown
\* before
StorageAgain(ok) == faults' = IF ok THEN faults ELSE faults + 1

\* this step makes no storage call
NoStorage == faults' = faults

----------------------------------------------------------------------------
(* Values of the browser components *)

\* the two versions of the install banner: PWAInstallButton.tsx, and the
\* one of unnamed/part_000, which has isInstalling where the other has
\* installationAttempted
Variants == {"tsx", "part_000"}

\* PWAInstallButton.tsx lines 11-16, part_000 lines 13-18: the useState
\* defaults; standalone is the window's display mode, mounted tells whether
\* the component is on the page.  promptCalls counts the calls of prompt()
\* on the beforeinstallprompt event captured last; awaitingPrompt and
\* awaitingChoice count the handleInstallClick calls suspended at
\* `await deferredPrompt.prompt()` and at `await deferredPrompt.userChoice`,
\* awaitingFetch the handleAPKDownload calls of part_000 suspended at
\* `await fetch(...)`.  effects names the passive effects React has still
\* to run: "first" those of the first render (all three useEffect calls),
\* "check" the one of lines 32-74 after a render with another isMobile;
\* listening tells whether the window listeners of lines 28 and 96-97 are
\* added
PwaUnmounted ==
    [variant |-> "tsx", mounted |-> FALSE, standalone |-> FALSE,
     deferredPrompt |-> FALSE, showInstallButton |-> FALSE,
     isInstalled |-> FALSE, isVisible |-> TRUE,
     installationAttempted |-> FALSE, isInstalling |-> FALSE,
     isMobile |-> FALSE, promptCalls |-> 0, awaitingPrompt |-> 0,
     awaitingChoice |-> 0, awaitingFetch |-> 0, effects |-> "none",
     listening |-> FALSE]

\* localStorage without either key
NoKeys == [installed |-> FALSE, dismissed |-> Absent]

\* PWAInstallPrompt (notifications.ts lines 955-957): the useState defaults;
\* standalone and ios describe the window, timer is the pending iOS timeout
\* of lines 984-988, listening the appinstalled listener of line 999
GuideUnmounted ==
    [mounted |-> FALSE, standalone |-> FALSE, ios |-> FALSE,
     showPrompt |-> FALSE, isInstalled |-> FALSE, timer |-> FALSE,
     listening |-> FALSE]

\* ImageModal.tsx line 50 and 54: zoomLevel is kept in hundredths
ZoomMin == 100
ZoomMax == 400
ZoomStep == 25

Origin == [x |-> 0, y |-> 0]

\* ImageModal.tsx lines 20-31: the props and the useState defaults
ModalMounted(images, initialIndex) ==
    [isOpen |-> FALSE, images |-> images, currentIndex |-> initialIndex,
     zoomLevel |-> ZoomMin, position |-> Origin, isDragging |-> FALSE,
     dragStart |-> Origin]

TypeOK ==
    /\ nextId \in 1..(MaxNotifs + 1)
    /\ ticks \in 0..MaxTicks
    /\ now >= 0
    /\ \A n \in notifications : n._id \in 1..MaxNotifs
    /\ \A r \in user_notifications : r.notificationId \in 1..MaxNotifs

Init ==
    /\ users = Population
    /\ notifications = {}
    /\ user_notifications = {}
    /\ nextId = 1
    /\ now = 0
    /\ ticks = 0
    /\ proc = [p \in Procs |-> Idle]
    /\ out = NoResp
    /\ faults = 0
    /\ pwa = PwaUnmounted
    /\ localStorage = NoKeys
    /\ modal = ModalMounted(1, 0)
    /\ guide = GuideUnmounted

----------------------------------------------------------------------------
(* The clock *)

Tick ==
    /\ ticks < MaxTicks
    /\ \E d \in {OneHourMs, OneDayMs} : now' = now + d
    /\ ticks' = ticks + 1
    /\ out' = NoResp
    /\ UNCHANGED <<users, notifications, user_notifications, nextId, proc, faults>>
    /\ UNCHANGED client

----------------------------------------------------------------------------
(* sendNotification, lines 84-301 *)

\* a request body without a type: the record and the entries of lines
\* 157-205 are stored without one
NoType == "undefined"

\* the type of a request body, which lines 98-104 do not look at and lines
\* 157 and 196 store as sent: the three channels the loop counts (lines 208
\* and 216); the four tags of the helpers' entries; "sms" for any string
\* that is none of these; no type at all
Types == {"email", "push", "both", "welcome", "onboarding", "post_created",
          "post_rejected", "sms", NoType}

\* "everyone" stands for any tag the switch does not recognise
Audiences == {"all", "buyers", "sellers", "agents", "specific", "everyone"}

SeqsUpTo(S, n) == UNION {[1..k -> S] : k \in 0..n}

\* the identifier strings a request may carry for a user: malformed (0), the
\* stored users, and a well-formed identifier of no stored user
UserIdInputs == 0..(Len(users) + 1)

\* specificUsers of a request body: absent, or a list
AllLists == {Undefined} \cup {Some(l) : l \in SeqsUpTo(UserIdInputs, MaxList)}

SendResp(id, n, st) ==
    [NoResp EXCEPT !.op = "sendNotification", !.code = 200, !.status = st,
                   !.notificationId = id, !.recipientCount = n]

Send500 == ErrorResp("sendNotification", 500, "Failed to send notification")

\* lines 142-151: the log line names the audience, the answer is a 400
NoRecipients(audience) ==
    [ErrorResp("sendNotification", 400,
               "No recipients found for the selected audience")
       EXCEPT !.audience = audience]

\* variant: the empty-recipients check is missing
NoRecipientsFound_Missing(recipients) == Len(recipients) < 0

\* line 146
NoRecipientsFound(recipients) == Len(recipients) = 0

\* lines 84-151: validation, the recipient filter and the users lookup
SendFind(p, ok, valid, type, audience, specificUsers, scheduled) ==
    /\ proc[p].pc = "idle"
    /\ IF ~valid
       THEN Answers(p, ErrorResp("sendNotification", 400,
                                 "Title and message are required"))
            /\ NoStorage
       ELSE IF FilterThrows(audience, specificUsers)
       THEN Answers(p, Send500) /\ NoStorage
       ELSE IF ~ok
       THEN Answers(p, Send500) /\ Storage(ok)
       ELSE Storage(ok) /\
            LET rs == SortedSeq(ResolveRecipients(users, audience, specificUsers))
            IN  IF NoRecipientsFound(rs)
                THEN Answers(p, NoRecipients(audience))
                ELSE Goes(p, [Idle EXCEPT
                        !.op = "sendNotification",
                        !.pc = "insert",
                        !.type = type,
                        !.audience = audience,
                        \* what line 159 will store
                        !.specificUsers = IF audience = "specific"
                                          THEN specificUsers ELSE Undefined,
                        !.scheduled = scheduled,
                        !.recipients = rs])
    /\ UNCHANGED <<users, notifications, user_notifications, nextId, now, ticks>>

\* lines 153-172: the record sendNotification inserts
NotificationData(id, type, audience, specificUsers, n, scheduled) ==
    [_id |-> id, createdBy |-> "admin", title |-> "custom", about |-> "none",
     type |-> type, audience |-> audience, specificUsers |-> specificUsers,
     recipientCount |-> n, deliveredCount |-> 0,
     status |-> IF scheduled THEN "scheduled" ELSE "pending",
     emailsSent |-> 0, pushNotificationsSent |-> 0, failedDeliveries |-> 0,
     errorDetails |-> <<>>]

\* variant: the insert is followed by the loop whether or not the request is
\* scheduled
SendInsert_AlwaysLoops(p, ok) ==
    LET s == proc[p] IN
    /\ s.op = "sendNotification" /\ s.pc = "insert"
    /\ Storage(ok)
    /\ nextId <= MaxNotifs
    /\ IF ~ok
       THEN /\ Answers(p, Send500)
            /\ UNCHANGED <<notifications, nextId>>
       ELSE /\ notifications' = notifications \cup
                   {NotificationData(nextId, s.type, s.audience, s.specificUsers,
                                     Len(s.recipients), s.scheduled)}
            /\ nextId' = nextId + 1
            /\ Goes(p, [s EXCEPT !.pc = "loop", !.notificationId = nextId,
                                 !.i = 1])
    /\ UNCHANGED <<users, user_notifications, now, ticks>>

\* lines 174-180 (and 277-293 for a scheduled request)
SendInsert(p, ok) ==
    LET s == proc[p] IN
    /\ s.op = "sendNotification" /\ s.pc = "insert"
    /\ Storage(ok)
    /\ nextId <= MaxNotifs
    /\ IF ~ok
       THEN /\ Answers(p, Send500)
            /\ UNCHANGED <<notifications, nextId>>
       ELSE /\ notifications' = notifications \cup
                   {NotificationData(nextId, s.type, s.audience, s.specificUsers,
                                     Len(s.recipients), s.scheduled)}
            /\ nextId' = nextId + 1
            /\ IF s.scheduled
               THEN Answers(p, SendResp(nextId, Len(s.recipients), "scheduled"))
               ELSE Goes(p, [s EXCEPT !.pc = "loop", !.notificationId = nextId,
                                      !.i = 1])
    /\ UNCHANGED <<users, user_notifications, now, ticks>>

\* lines 191-205: the delivery-log record of one recipient
DeliveryLog(id, uid, type) ==
    [notificationId |-> id, userId |-> uid, type |-> type, createdAt |-> Absent]

\* variant: a recipient's failure is not caught inside the loop and ends it
SendRecipient_Aborts(p, ok) ==
    LET s == proc[p]
        recipient == s.recipients[s.i]
        email == s.type \in {"email", "both"}
        push == s.type \in {"push", "both"}
        pcNext == IF s.i = Len(s.recipients) THEN "update" ELSE "loop"
    IN
    /\ s.op = "sendNotification" /\ s.pc = "loop"
    /\ Storage(ok)
    /\ IF ok
       THEN /\ user_notifications' = user_notifications \cup
                   {DeliveryLog(s.notificationId, recipient, s.type)}
            /\ Goes(p, [s EXCEPT
                  !.emailsSent = IF email THEN @ + 1 ELSE @,
                  !.pushNotificationsSent = IF push THEN @ + 1 ELSE @,
                  !.i = @ + 1, !.pc = pcNext])
       ELSE /\ UNCHANGED user_notifications
            /\ Goes(p, [s EXCEPT !.pc = "catch"])
    /\ UNCHANGED <<users, notifications, nextId, now, ticks>>

\* lines 188-234: one iteration of the recipient loop
SendRecipient(p, ok) ==
    LET s == proc[p]
        recipient == s.recipients[s.i]
        email == s.type \in {"email", "both"}
        push == s.type \in {"push", "both"}
        pcNext == IF s.i = Len(s.recipients) THEN "update" ELSE "loop"
    IN
    /\ s.op = "sendNotification" /\ s.pc = "loop"
    /\ Storage(ok)
    /\ IF ok
       THEN /\ user_notifications' = user_notifications \cup
                   {DeliveryLog(s.notificationId, recipient, s.type)}
            /\ Goes(p, [s EXCEPT
                  !.emailsSent = IF email THEN @ + 1 ELSE @,
                  !.pushNotificationsSent = IF push THEN @ + 1 ELSE @,
                  !.i = @ + 1, !.pc = pcNext])
       ELSE /\ UNCHANGED user_notifications
            /\ Goes(p, [s EXCEPT
                  !.failedDeliveries = @ + 1,
                  !.errorDetails = Append(@, recipient),
                  !.i = @ + 1, !.pc = pcNext])
    /\ UNCHANGED <<users, notifications, nextId, now, ticks>>

\* updateOne({_id: id}, {$set: ...}): no document matches a deleted id
UpdateOne(coll, id, set) ==
    {IF n._id = id THEN set[n] ELSE n : n \in coll}

\* variant: only e-mails count as delivered
DeliveredCount_EmailsOnly(emailsSent, pushNotificationsSent) ==
    emailsSent

\* line 241
DeliveredCount(emailsSent, pushNotificationsSent) ==
    emailsSent + pushNotificationsSent

\* variant: any failed delivery fails the notification
FinalStatus_AnyFailure(failedDeliveries, n) ==
    IF failedDeliveries > 0 THEN "failed" ELSE "sent"

\* lines 242-243
FinalStatus(failedDeliveries, n) ==
    IF failedDeliveries = n THEN "failed" ELSE "sent"

\* lines 236-256 and 277-293: the aggregate update and the answer
SendUpdate(p, ok) ==
    LET s == proc[p]
        Set == [n \in notifications |-> [n EXCEPT
            !.deliveredCount = DeliveredCount(s.emailsSent, s.pushNotificationsSent),
            !.status = FinalStatus(s.failedDeliveries, Len(s.recipients)),
            !.emailsSent = s.emailsSent,
            !.pushNotificationsSent = s.pushNotificationsSent,
            !.failedDeliveries = s.failedDeliveries,
            !.errorDetails = s.errorDetails]]
    IN
    /\ s.op = "sendNotification" /\ s.pc = "update"
    /\ Storage(ok)
    /\ IF ok
       THEN /\ notifications' = UpdateOne(notifications, s.notificationId, Set)
            /\ Answers(p, SendResp(s.notificationId, Len(s.recipients), "sent"))
       ELSE /\ UNCHANGED notifications
            /\ Goes(p, [s EXCEPT !.pc = "catch"])
    /\ UNCHANGED <<users, user_notifications, nextId, now, ticks>>

\* variant: the catch block stores the counts the loop had reached
SendCatch_KeepsCounts(p, ok) ==
    LET s == proc[p]
        Set == [n \in notifications |-> [n EXCEPT
            !.status = "failed",
            !.emailsSent = s.emailsSent,
            !.pushNotificationsSent = s.pushNotificationsSent,
            !.failedDeliveries = s.failedDeliveries,
            !.errorDetails = <<0>>]]
    IN
    /\ s.op = "sendNotification" /\ s.pc = "catch"
    /\ StorageAgain(ok)
    /\ IF ok
       THEN /\ notifications' = UpdateOne(notifications, s.notificationId, Set)
            /\ Answers(p, SendResp(s.notificationId, Len(s.recipients), "sent"))
       ELSE /\ UNCHANGED notifications
            /\ Answers(p, Send500)
    /\ UNCHANGED <<users, user_notifications, nextId, now, ticks>>

\* lines 257-274 and 277-300: the catch block around the loop; its
\* errorDetails entry names no recipient (0)
SendCatch(p, ok) ==
    LET s == proc[p]
        Set == [n \in notifications |-> [n EXCEPT
            !.status = "failed",
            !.emailsSent = 0,
            !.pushNotificationsSent = 0,
            !.failedDeliveries = Len(s.recipients),
            !.errorDetails = <<0>>]]
    IN
    /\ s.op = "sendNotification" /\ s.pc = "catch"
    /\ StorageAgain(ok)
    /\ IF ok
       THEN /\ notifications' = UpdateOne(notifications, s.notificationId, Set)
            /\ Answers(p, SendResp(s.notificationId, Len(s.recipients), "sent"))
       ELSE /\ UNCHANGED notifications
            /\ Answers(p, Send500)
    /\ UNCHANGED <<users, user_notifications, nextId, now, ticks>>

----------------------------------------------------------------------------
(* deleteNotification, lines 736-763 *)

\* the identifier strings a request may carry for a notification
NotifIdInputs == 0..MaxNotifs

Delete500 == ErrorResp("deleteNotification", 500, "Failed to delete notification")

\* deleteOne({_id: id}), line 748
DeleteOne(coll, id) == {n \in coll : n._id # id}

\* variant: the filter of deleteMany is empty
DeleteMany_NoFilter(coll, id) == {r \in coll : FALSE}

\* deleteMany({notificationId: id}), lines 751-753
DeleteMany(coll, id) == {r \in coll : r.notificationId # id}

\* lines 739-748
DeleteNotification(p, ok, id) ==
    /\ proc[p].pc = "idle"
    /\ IF ~ObjectIdIsValid(id)
       THEN /\ Answers(p, [ErrorResp("deleteNotification", 400,
                                     "Invalid notification ID")
                             EXCEPT !.notificationId = id])
            /\ NoStorage
            /\ UNCHANGED notifications
       ELSE IF ~ok
       THEN /\ Answers(p, Delete500)
            /\ Storage(ok)
            /\ UNCHANGED notifications
       ELSE /\ Storage(ok)
            /\ notifications' = DeleteOne(notifications, id)
            /\ Goes(p, [Idle EXCEPT !.op = "deleteNotification",
                                    !.pc = "logs", !.id = id])
    /\ UNCHANGED <<users, user_notifications, nextId, now, ticks>>

\* lines 750-755
DeleteLogs(p, ok) ==
    LET s == proc[p] IN
    /\ s.op = "deleteNotification" /\ s.pc = "logs"
    /\ Storage(ok)
    /\ IF ok
       THEN /\ user_notifications' = DeleteMany(user_notifications, s.id)
            /\ Answers(p, [NoResp EXCEPT !.op = "deleteNotification",
                                         !.code = 200, !.notificationId = s.id])
       ELSE /\ UNCHANGED user_notifications
            /\ Answers(p, Delete500)
    /\ UNCHANGED <<users, notifications, nextId, now, ticks>>

----------------------------------------------------------------------------
(* getNotificationById, lines 354-402 *)

Get500 ==
    ErrorResp("getNotificationById", 500, "Failed to fetch notification details")

\* findOne({_id: id}), lines 366-368: the document, or nothing
FindOne(coll, id) == {n \in coll : n._id = id}

\* find({notificationId: id}), lines 378-381
Find(coll, id) == {r \in coll : r.notificationId = id}

\* lines 357-375
GetNotificationById(p, ok, id) ==
    /\ proc[p].pc = "idle"
    /\ IF ~ObjectIdIsValid(id)
       THEN /\ Answers(p, [ErrorResp("getNotificationById", 400,
                                     "Invalid notification ID")
                             EXCEPT !.notificationId = id])
            /\ NoStorage
       ELSE /\ Storage(ok)
            /\ IF ~ok
               THEN Answers(p, Get500)
               ELSE IF FindOne(notifications, id) = {}
               THEN Answers(p, [ErrorResp("getNotificationById", 404,
                                          "Notification not found")
                                  EXCEPT !.notificationId = id])
               ELSE Goes(p, [Idle EXCEPT !.op = "getNotificationById",
                                         !.pc = "details", !.id = id])
    /\ UNCHANGED <<users, notifications, user_notifications, nextId, now, ticks>>

\* lines 377-394: the answer carries the notification and its delivery
\* records (here: how many)
GetDeliveryDetails(p, ok) ==
    LET s == proc[p] IN
    /\ s.op = "getNotificationById" /\ s.pc = "details"
    /\ Storage(ok)
    /\ IF ok
       THEN Answers(p, [NoResp EXCEPT
                !.op = "getNotificationById", !.code = 200,
                !.notificationId = s.id,
                !.deliveryDetails = Cardinality(Find(user_notifications, s.id))])
       ELSE Answers(p, Get500)
    /\ UNCHANGED <<users, notifications, user_notifications, nextId, now, ticks>>

----------------------------------------------------------------------------
(* The system-triggered helpers, lines 404-733.  Each inserts a notification *)
(* addressed to one user, logs it in user_notifications under its type tag *)
(* and marks it delivered.  The property title is part of the message.     *)

Properties == {"pA"}

\* lines 434-451, 492-509, 584-601, 675-692: the record a helper inserts
HelperNotification(id, title, userId, about) ==
    [_id |-> id, createdBy |-> "system", title |-> title, about |-> about,
     type |-> "both", audience |-> "specific",
     specificUsers |-> Some(<<userId>>),
     recipientCount |-> 1, deliveredCount |-> 0, status |-> "sent",
     emailsSent |-> 0, pushNotificationsSent |-> 0, failedDeliveries |-> 0,
     errorDetails |-> <<>>]

\* lines 460-470, 518-528, 610-620, 701-711: the user's dashboard entry
UserNotification(id, userId, tag, at) ==
    [notificationId |-> id, userId |-> userId, type |-> tag, createdAt |-> at]

\* lines 475-484, 533-542, 625-634, 716-725: $set of the delivered update
MarkDelivered(n) ==
    [n EXCEPT !.deliveredCount = 1, !.emailsSent = 1,
              !.pushNotificationsSent = 1]

\* variant: the welcome lookup has a one-hour window, as the other helpers do
ExistingWelcome_Windowed(userId) ==
    \E r \in user_notifications :
        /\ r.userId = userId
        /\ r.type = "welcome"
        /\ r.createdAt >= now - OneHourMs

\* findOne({userId, type: tag}) of the welcome helper, lines 419-422
ExistingWelcome(userId) ==
    \E r \in user_notifications : r.userId = userId /\ r.type = "welcome"

\* findOne({userId, type: tag, createdAt: {$gte: since}}), lines 568-574
\* and 659-665, on the collection as it is when the call is served
ExistingNotif(userId, tag, since) ==
    \E r \in user_notifications :
        /\ r.userId = userId
        /\ r.type = tag
        /\ r.createdAt # Absent
        /\ r.createdAt >= since

\* a helper with a recency window is called: the filter of its lookup is
\* built, new ObjectId(userId) and new Date(Date.now() - window) included,
\* before findOne is awaited
HelperCall(p, op, userId, propertyId, window) ==
    /\ proc[p].pc = "idle"
    /\ NoStorage
    /\ IF ~ObjectIdIsValid(userId)
       THEN Answers(p, Returned(op, userId, propertyId, FALSE, "failed"))
       ELSE Goes(p, [Idle EXCEPT !.op = op, !.pc = "lookup",
                                 !.userId = userId,
                                 !.propertyId = propertyId,
                                 !.since = now - window])
    /\ UNCHANGED <<users, notifications, user_notifications, nextId, now, ticks>>

\* the findOne of a helper with a recency window is served, with the bound
\* the call computed: the early return, or on to the insert
HelperFind(p, ok, op, tag) ==
    LET s == proc[p] IN
    /\ s.op = op /\ s.pc = "lookup"
    /\ Storage(ok)
    /\ IF ~ok
       THEN Answers(p, Returned(op, s.userId, s.propertyId, FALSE, "failed"))
       ELSE IF ExistingNotif(s.userId, tag, s.since)
       THEN Answers(p, Returned(op, s.userId, s.propertyId, TRUE, "skipping"))
       ELSE Goes(p, [s EXCEPT !.pc = "insert"])
    /\ UNCHANGED <<users, notifications, user_notifications, nextId, now, ticks>>

\* the first step of the welcome helper, whose filter reads no clock: the
\* dedupe lookup and the early return
HelperLookup(p, ok, op, userId, propertyId, existing) ==
    /\ proc[p].pc = "idle"
    /\ IF ~ObjectIdIsValid(userId)
       THEN Answers(p, Returned(op, userId, propertyId, FALSE, "failed"))
            /\ NoStorage
       ELSE /\ Storage(ok)
            /\ IF ~ok
               THEN Answers(p, Returned(op, userId, propertyId, FALSE, "failed"))
               ELSE IF existing
               THEN Answers(p, Returned(op, userId, propertyId, TRUE, "skipping"))
               ELSE Goes(p, [Idle EXCEPT !.op = op, !.pc = "insert",
                                         !.userId = userId,
                                         !.propertyId = propertyId])
    /\ UNCHANGED <<users, notifications, user_notifications, nextId, now, ticks>>

\* insertOne into notifications; the code that follows it builds the
\* dashboard entry, createdAt: new Date() included, before it awaits the
\* insert of the entry
HelperInsert(p, ok, op, pc, title) ==
    LET s == proc[p] IN
    /\ s.op = op /\ s.pc = pc
    /\ nextId <= MaxNotifs
    /\ Storage(ok)
    /\ IF ok
       THEN /\ notifications' = notifications \cup
                  {HelperNotification(nextId, title, s.userId, s.propertyId)}
            /\ nextId' = nextId + 1
            /\ Goes(p, [s EXCEPT !.pc = "log", !.notificationId = nextId,
                                 !.createdAt = now])
       ELSE /\ Answers(p, Returned(op, s.userId, s.propertyId, FALSE, "failed"))
            /\ UNCHANGED <<notifications, nextId>>
    /\ UNCHANGED <<users, user_notifications, now, ticks>>

\* variant: the log is an upsert keyed on user and tag
HelperLog_Upsert(p, ok, op, pc, tag) ==
    LET s == proc[p] IN
    /\ s.op = op /\ s.pc = pc
    /\ Storage(ok)
    /\ IF ok
       THEN /\ user_notifications' =
                  IF \E r \in user_notifications :
                         r.userId = s.userId /\ r.type = tag
                  THEN user_notifications
                  ELSE user_notifications \cup
                         {UserNotification(s.notificationId, s.userId, tag,
                                           s.createdAt)}
            /\ Goes(p, [s EXCEPT !.pc = "update"])
       ELSE /\ Answers(p, Returned(op, s.userId, s.propertyId, FALSE, "failed"))
            /\ UNCHANGED user_notifications
    /\ UNCHANGED <<users, notifications, nextId, now, ticks>>

\* insertOne into user_notifications of the entry built before the call
HelperLog(p, ok, op, pc, tag) ==
    LET s == proc[p] IN
    /\ s.op = op /\ s.pc = pc
    /\ Storage(ok)
    /\ IF ok
       THEN /\ user_notifications' = user_notifications \cup
                  {UserNotification(s.notificationId, s.userId, tag, s.createdAt)}
            /\ Goes(p, [s EXCEPT !.pc = "update"])
       ELSE /\ Answers(p, Returned(op, s.userId, s.propertyId, FALSE, "failed"))
            /\ UNCHANGED user_notifications
    /\ UNCHANGED <<users, notifications, nextId, now, ticks>>

\* updateOne marking the notification delivered, then the return
HelperUpdate(p, ok, op, pc) ==
    LET s == proc[p] IN
    /\ s.op = op /\ s.pc = pc
    /\ Storage(ok)
    /\ IF ok
       THEN /\ notifications' =
                  UpdateOne(notifications, s.notificationId,
                            [n \in notifications |-> MarkDelivered(n)])
            /\ Answers(p, Returned(op, s.userId, s.propertyId, TRUE, "sent"))
       ELSE /\ Answers(p, Returned(op, s.userId, s.propertyId, FALSE, "failed"))
            /\ UNCHANGED notifications
    /\ UNCHANGED <<users, user_notifications, nextId, now, ticks>>

(* sendWelcomeNotification, lines 406-552 *)

\* lines 418-429
WelcomeLookup(p, ok, userId) ==
    HelperLookup(p, ok, "sendWelcomeNotification", userId, "none",
                 ExistingWelcome(userId))

\* lines 453-457
WelcomeInsert(p, ok) ==
    HelperInsert(p, ok, "sendWelcomeNotification", "insert", "welcome")

\* lines 459-472
WelcomeLog(p, ok) ==
    HelperLog(p, ok, "sendWelcomeNotification", "log", "welcome")

\* lines 474-484: the update is followed by the second notification
WelcomeUpdate(p, ok) ==
    LET s == proc[p] IN
    /\ s.op = "sendWelcomeNotification" /\ s.pc = "update"
    /\ Storage(ok)
    /\ IF ok
       THEN /\ notifications' =
                  UpdateOne(notifications, s.notificationId,
                            [n \in notifications |-> MarkDelivered(n)])
            /\ Goes(p, [s EXCEPT !.pc = "insert2"])
       ELSE /\ Answers(p, Returned(s.op, s.userId, s.propertyId, FALSE, "failed"))
            /\ UNCHANGED notifications
    /\ UNCHANGED <<users, user_notifications, nextId, now, ticks>>

\* lines 511-515
OnboardingInsert(p, ok) ==
    LET s == proc[p] IN
    /\ s.op = "sendWelcomeNotification" /\ s.pc = "insert2"
    /\ nextId <= MaxNotifs
    /\ Storage(ok)
    /\ IF ok
       THEN /\ notifications' = notifications \cup
                  {HelperNotification(nextId, "quickstart", s.userId, s.propertyId)}
            /\ nextId' = nextId + 1
            /\ Goes(p, [s EXCEPT !.pc = "log2", !.notificationId = nextId,
                                 !.createdAt = now])
       ELSE /\ Answers(p, Returned(s.op, s.userId, s.propertyId, FALSE, "failed"))
            /\ UNCHANGED <<notifications, nextId>>
    /\ UNCHANGED <<users, user_notifications, now, ticks>>

\* lines 517-530
OnboardingLog(p, ok) ==
    LET s == proc[p] IN
    /\ s.op = "sendWelcomeNotification" /\ s.pc = "log2"
    /\ Storage(ok)
    /\ IF ok
       THEN /\ user_notifications' = user_notifications \cup
                  {UserNotification(s.notificationId, s.userId, "onboarding",
                                    s.createdAt)}
            /\ Goes(p, [s EXCEPT !.pc = "update2"])
       ELSE /\ Answers(p, Returned(s.op, s.userId, s.propertyId, FALSE, "failed"))
            /\ UNCHANGED user_notifications
    /\ UNCHANGED <<users, notifications, nextId, now, ticks>>

\* lines 532-551
OnboardingUpdate(p, ok) ==
    HelperUpdate(p, ok, "sendWelcomeNotification", "update2")

(* sendPostCreatedNotification, lines 555-642 *)

\* lines 555-574, up to the await of findOne
PostCreatedCall(p, userId, propertyId) ==
    HelperCall(p, "sendPostCreatedNotification", userId, propertyId,
               OneHourMs)

\* lines 568-581
PostCreatedLookup(p, ok) ==
    HelperFind(p, ok, "sendPostCreatedNotification", "post_created")

\* lines 603-607
PostCreatedInsert(p, ok) ==
    HelperInsert(p, ok, "sendPostCreatedNotification", "insert", "listed")

\* lines 609-622
PostCreatedLog(p, ok) ==
    HelperLog(p, ok, "sendPostCreatedNotification", "log", "post_created")

\* lines 624-641
PostCreatedUpdate(p, ok) ==
    HelperUpdate(p, ok, "sendPostCreatedNotification", "update")

(* sendPostRejectedNotification, lines 645-733 *)

\* variant: rejections are deduplicated over one hour, as creations are
PostRejectedCall_OneHour(p, userId, propertyId) ==
    HelperCall(p, "sendPostRejectedNotification", userId, propertyId,
               OneHourMs)

\* lines 645-665, up to the await of findOne
PostRejectedCall(p, userId, propertyId) ==
    HelperCall(p, "sendPostRejectedNotification", userId, propertyId,
               OneDayMs)

\* lines 659-672
PostRejectedLookup(p, ok) ==
    HelperFind(p, ok, "sendPostRejectedNotification", "post_rejected")

\* lines 694-698
PostRejectedInsert(p, ok) ==
    HelperInsert(p, ok, "sendPostRejectedNotification", "insert", "rejected")

\* lines 700-713
PostRejectedLog(p, ok) ==
    HelperLog(p, ok, "sendPostRejectedNotification", "log", "post_rejected")

\* lines 715-732
PostRejectedUpdate(p, ok) ==
    HelperUpdate(p, ok, "sendPostRejectedNotification", "update")

\* the steps of the three helpers, called for a user of U about a property of P
HelperStep(p, ok, U, P) ==
    \/ \E u \in U : WelcomeLookup(p, ok, u)
    \/ WelcomeInsert(p, ok)
    \/ WelcomeLog(p, ok)
    \/ WelcomeUpdate(p, ok)
    \/ OnboardingInsert(p, ok)
    \/ OnboardingLog(p, ok)
    \/ OnboardingUpdate(p, ok)
    \/ \E u \in U, pr \in P : ok /\ PostCreatedCall(p, u, pr)
    \/ PostCreatedLookup(p, ok)
    \/ PostCreatedInsert(p, ok)
    \/ PostCreatedLog(p, ok)
    \/ PostCreatedUpdate(p, ok)
    \/ \E u \in U, pr \in P : ok /\ PostRejectedCall(p, u, pr)
    \/ PostRejectedLookup(p, ok)
    \/ PostRejectedInsert(p, ok)
    \/ PostRejectedLog(p, ok)
    \/ PostRejectedUpdate(p, ok)

----------------------------------------------------------------------------
(* PWAInstallButton, client/components/PWAInstallButton.tsx *)

\* lines 183-188: the banner is on the screen
Rendered(c) ==
    /\ c.mounted
    /\ ~c.isInstalled
    /\ c.isVisible
    /\ c.showInstallButton

\* line 56 and 59: hoursSinceDismissed < 24, for the marker written at
\* dismissedTime (Date.now().toString() read back by parseInt)
DismissedToday(dismissedTime) == now - dismissedTime < 24 * 1000 * 60 * 60

\* variant: checkInstalled without the look at the stored "pwa-installed"
CheckInstalled_IgnoresStored(c, ls, isMobile) ==
    IF c.standalone
    THEN [c  |-> [c EXCEPT !.isInstalled = TRUE, !.showInstallButton = FALSE],
          ls |-> [installed |-> TRUE, dismissed |-> Absent]]
    ELSE IF ls.dismissed # Absent /\ DismissedToday(ls.dismissed)
    THEN [c  |-> [c EXCEPT !.isVisible = FALSE], ls |-> ls]
    ELSE [c  |-> [c EXCEPT !.showInstallButton = IF isMobile THEN TRUE ELSE @],
          ls |-> [ls EXCEPT !.dismissed = Absent]]

\* lines 34-71, checkInstalled, run by the effect of lines 32-74 with the
\* isMobile of the render that scheduled it: the component state and the
\* localStorage it leaves
CheckInstalled(c, ls, isMobile) ==
    IF c.standalone
    THEN [c  |-> [c EXCEPT !.isInstalled = TRUE, !.showInstallButton = FALSE],
          ls |-> [installed |-> TRUE, dismissed |-> Absent]]
    ELSE IF ls.installed
    THEN [c  |-> [c EXCEPT !.isInstalled = TRUE, !.showInstallButton = FALSE],
          ls |-> ls]
    ELSE IF ls.dismissed # Absent /\ DismissedToday(ls.dismissed)
    THEN [c  |-> [c EXCEPT !.isVisible = FALSE], ls |-> ls]
    ELSE [c  |-> [c EXCEPT !.showInstallButton = IF isMobile THEN TRUE ELSE @],
          ls |-> [ls EXCEPT !.dismissed = Absent]]

\* the page with the component is loaded (again) in a window, which ends
\* the handlers of the page before: the first render, with the useState
\* defaults; its effects are still to run
PwaMount(standalone) ==
    /\ pwa' = [PwaUnmounted EXCEPT !.mounted = TRUE,
                                   !.standalone = standalone,
                                   !.variant = pwa.variant,
                                   !.effects = "first"]
    /\ UNCHANGED <<server, localStorage, modal, guide>>

\* the effects of the first render: lines 19-30 find the window mobile or
\* not and add the resize listener, lines 32-74 run checkInstalled with the
\* isMobile of the first render (false), lines 76-103 add the two install
\* listeners; setIsMobile(true) asks for another render, whose effect of
\* lines 32-74 is then still to run
PwaEffects(mobile) ==
    /\ pwa.effects = "first"
    /\ LET c == [pwa EXCEPT !.isMobile = mobile, !.listening = TRUE,
                            !.effects = IF mobile THEN "check" ELSE "none"]
           r == CheckInstalled(c, localStorage, FALSE)
       IN  /\ pwa' = r.c
           /\ localStorage' = r.ls
    /\ UNCHANGED <<server, modal, guide>>

\* the effect of lines 32-74 after a render with another isMobile: React
\* runs it after the render, in a task of its own, so that a browser event
\* may be handled before it
PwaCheck ==
    /\ pwa.effects = "check"
    /\ LET r == CheckInstalled([pwa EXCEPT !.effects = "none"], localStorage,
                               pwa.isMobile)
       IN  /\ pwa' = r.c
           /\ localStorage' = r.ls
    /\ UNCHANGED <<server, modal, guide>>

\* lines 20-28: a resize after which checkMobile finds another value; the
\* listener only calls setIsMobile.  The effect of an earlier render that
\* is still to run is run by React before it renders again
PwaResize(mobile) ==
    /\ pwa.listening
    /\ mobile # pwa.isMobile
    /\ LET r == IF pwa.effects = "check"
                THEN CheckInstalled(pwa, localStorage, pwa.isMobile)
                ELSE [c |-> pwa, ls |-> localStorage]
       IN  /\ pwa' = [r.c EXCEPT !.isMobile = mobile, !.effects = "check"]
           /\ localStorage' = r.ls
    /\ UNCHANGED <<server, modal, guide>>

\* lines 78-84: the browser offers the install prompt (never in a window
\* that runs the installed app)
HandleBeforeInstallPrompt ==
    /\ pwa.listening
    /\ ~pwa.standalone
    /\ pwa' = [pwa EXCEPT !.deferredPrompt = TRUE,
                          !.promptCalls = 0,
                          !.showInstallButton = TRUE,
                          !.isVisible = TRUE]
    /\ UNCHANGED <<server, localStorage, modal, guide>>

\* lines 87-94 (part_000 lines 88-100)
HandleAppInstalled ==
    /\ pwa.listening
    /\ pwa' = [pwa EXCEPT !.isInstalled = TRUE,
                          !.showInstallButton = FALSE,
                          !.deferredPrompt = FALSE,
                          !.installationAttempted = FALSE,
                          !.isInstalling = FALSE]
    /\ localStorage' = [installed |-> TRUE, dismissed |-> Absent]
    /\ UNCHANGED <<server, modal, guide>>

\* lines 144-148: the X of the banner (part_000 lines 162-165 and 240-245,
\* where the X is disabled while isInstalling)
HandleDismiss ==
    /\ Rendered(pwa)
    /\ ~pwa.isInstalling
    /\ pwa' = [pwa EXCEPT !.isVisible = FALSE,
                          !.installationAttempted = FALSE]
    /\ localStorage' = [localStorage EXCEPT !.dismissed = now]
    /\ UNCHANGED <<server, modal, guide>>

\* the handleInstallClick calls that are suspended at an await
Suspended(c) == c.awaitingPrompt + c.awaitingChoice

\* PWAInstallButton.tsx lines 105-121, up to `await deferredPrompt.prompt()`
ClickTsx(c) ==
    IF c.deferredPrompt
    THEN [c EXCEPT !.installationAttempted = TRUE,
                   !.promptCalls = @ + 1,
                   !.awaitingPrompt = @ + 1]
    ELSE [c EXCEPT !.installationAttempted = TRUE]

\* part_000 lines 111-117, up to `await deferredPrompt.prompt()`; without a
\* captured event the call runs to the finally of line 157
ClickAlt(c) ==
    IF c.deferredPrompt
    THEN [c EXCEPT !.isInstalling = TRUE,
                   !.promptCalls = @ + 1,
                   !.awaitingPrompt = @ + 1]
    ELSE [c EXCEPT !.isInstalling = FALSE]

\* the Install App button (disabled in part_000 while isInstalling); the
\* bounds are on the clicks that call prompt()
HandleInstallClick ==
    /\ Rendered(pwa)
    /\ pwa.deferredPrompt => /\ Suspended(pwa) < MaxClicks
                             /\ pwa.promptCalls < MaxPromptCalls
    /\ pwa.variant = "part_000" => ~pwa.isInstalling
    /\ pwa' = IF pwa.variant = "tsx" THEN ClickTsx(pwa) ELSE ClickAlt(pwa)
    /\ UNCHANGED <<server, localStorage, modal, guide>>

\* prompt() has thrown: PWAInstallButton.tsx lines 136-141 clear the captured
\* event after the catch; part_000 lines 149-159 leave it
PromptThrew(c) ==
    IF c.variant = "tsx"
    THEN [c EXCEPT !.awaitingPrompt = @ - 1, !.deferredPrompt = FALSE]
    ELSE [c EXCEPT !.awaitingPrompt = @ - 1, !.isInstalling = FALSE]

\* `await deferredPrompt.prompt()` is over: the call goes on to wait for the
\* user's choice, or prompt() has thrown
PromptSettles(ok) ==
    /\ pwa.awaitingPrompt > 0
    /\ pwa' = IF ok
              THEN [pwa EXCEPT !.awaitingPrompt = @ - 1,
                               !.awaitingChoice = @ + 1]
              ELSE PromptThrew(pwa)
    /\ UNCHANGED <<server, localStorage, modal, guide>>

\* PWAInstallButton.tsx lines 126-141, part_000 lines 122-138 and 157-159:
\* the component after the user's choice
Chosen(c, accepted) ==
    LET d == [c EXCEPT !.awaitingChoice = @ - 1, !.deferredPrompt = FALSE,
                       !.isInstalling = FALSE]
    IN  IF accepted
        THEN [d EXCEPT !.isInstalled = TRUE, !.showInstallButton = FALSE]
        ELSE [d EXCEPT !.installationAttempted = FALSE]

\* `await deferredPrompt.userChoice` is over
UserChoice(accepted) ==
    /\ pwa.awaitingChoice > 0
    /\ pwa' = Chosen(pwa, accepted)
    /\ localStorage' = [localStorage EXCEPT
                          !.installed = IF accepted THEN TRUE ELSE @]
    /\ UNCHANGED <<server, modal, guide>>

\* part_000 lines 167-171 and 259-260: the Download APK button, disabled
\* while isInstalling, up to `await fetch(...)`.  (handleAPKDownload of
\* PWAInstallButton.tsx, lines 150-174, changes no state.)
HandleAPKDownload ==
    /\ Rendered(pwa)
    /\ pwa.variant = "part_000"
    /\ ~pwa.isInstalling
    /\ pwa' = [pwa EXCEPT !.isInstalling = TRUE, !.awaitingFetch = @ + 1]
    /\ UNCHANGED <<server, localStorage, modal, guide>>

\* part_000 lines 173-203: `await fetch(...)` is over; whether it answered
\* ok, answered otherwise or threw, the call shows a toast and ends in the
\* finally of line 202
FetchSettles ==
    /\ pwa.awaitingFetch > 0
    /\ pwa' = [pwa EXCEPT !.awaitingFetch = @ - 1, !.isInstalling = FALSE]
    /\ UNCHANGED <<server, localStorage, modal, guide>>

----------------------------------------------------------------------------
(* Specifications *)

\* a sendNotification request arrives: a body without title or message; a
\* body whose users lookup throws; a body whose lookup succeeds.  A, L and T
\* are the audiences, lists and types the bodies are drawn from
SendRequest(p, ok, A, L, T) ==
    \/ ok /\ SendFind(p, TRUE, FALSE, "both", "all", Undefined, FALSE)
    \/ \E audience \in A, specificUsers \in L :
          \/ ~ok /\ SendFind(p, FALSE, TRUE, "both", audience, specificUsers,
                             FALSE)
          \/ \E type \in T, scheduled \in BOOLEAN :
                ok /\ SendFind(p, TRUE, TRUE, type, audience, specificUsers,
                               scheduled)

SendStep(p, ok, A, L, T) ==
    \/ SendRequest(p, ok, A, L, T)
    \/ SendInsert(p, ok)
    \/ SendRecipient(p, ok)
    \/ SendUpdate(p, ok)
    \/ SendCatch(p, ok)

DeleteStep(p, ok) ==
    \/ \E id \in NotifIdInputs : DeleteNotification(p, ok, id)
    \/ DeleteLogs(p, ok)

GetStep(p, ok) ==
    \/ \E id \in NotifIdInputs : GetNotificationById(p, ok, id)
    \/ GetDeliveryDetails(p, ok)

\* the audience tags the admin sends to in Spec: both target users, one of
\* them, none of them
SentAudiences == {"all", "sellers", "agents"}

\* the user identifiers the helpers are called with: a malformed one and
\* user 1; in the sequential runs user 2 as well
CalledFor == {0, 1}
CalledForSeq == {0, 1, 2}

(* Spec: the handlers run one request at a time (slot "a"); storage calls  *)
(* may throw.                                                               *)
Next ==
    \E ok \in BOOLEAN :
        \/ SendStep("a", ok, SentAudiences, {Undefined}, Types)
        \/ DeleteStep("a", ok)
        \/ GetStep("a", ok)
        \/ HelperStep("a", ok, CalledFor, Properties)

Spec == Init /\ [][Next]_vars

(* SpecCrash: Spec, with a server process that may stop between two awaited *)
(* calls of a request: the request is never resumed and never answered.     *)
(* The bodies sent carry a type the loop counts, the welcome helper's tag   *)
(* or no type.                                                              *)
CrashTypes == {"both", "welcome", NoType}

Crash(p) ==
    /\ proc[p].pc # "idle"
    /\ proc' = [proc EXCEPT ![p] = Idle]
    /\ out' = NoResp
    /\ UNCHANGED <<users, notifications, user_notifications, nextId, now,
                   ticks, faults, client>>

NextCrash ==
    \/ \E ok \in BOOLEAN :
          \/ SendStep("a", ok, SentAudiences, {Undefined}, CrashTypes)
          \/ DeleteStep("a", ok)
          \/ GetStep("a", ok)
          \/ HelperStep("a", ok, CalledFor, Properties)
    \/ Crash("a")

SpecCrash == Init /\ [][NextCrash]_vars

(* SpecHelpersSeq: the helpers called one after another while the clock    *)
(* advances; no storage call throws.                                       *)
NextHelpersSeq ==
    \/ Tick
    \/ HelperStep("a", TRUE, CalledForSeq, Properties)

SpecHelpersSeq == Init /\ [][NextHelpersSeq]_vars

(* SpecPerProperty: the helpers called one after another for one user      *)
(* about two properties while the clock advances; no storage call throws.  *)
TwoProperties == {"pA", "pB"}

NextPerProperty ==
    \/ Tick
    \/ HelperStep("a", TRUE, {1}, TwoProperties)

SpecPerProperty == Init /\ [][NextPerProperty]_vars

(* SpecRace: two helper calls in flight at once, and deleteNotification    *)
(* beside them; storage calls may throw.                                   *)
NextRace ==
    \E ok \in BOOLEAN :
        \/ DeleteStep("b", ok)
        \/ \E p \in Procs : HelperStep(p, ok, CalledFor, Properties)

SpecRace == Init /\ [][NextRace]_vars

(* SpecResolve: the first step of one request, over every users collection *)
(* of NumUsers users: sendNotification with every request body, and the     *)
(* two handlers addressed by a notification identifier.                     *)
InitResolve ==
    /\ users \in [1..NumUsers -> UserTypes]
    /\ notifications = {}
    /\ user_notifications = {}
    /\ nextId = 1
    /\ now = 0
    /\ ticks = 0
    /\ proc = [p \in Procs |-> Idle]
    /\ out = NoResp
    /\ faults = 0
    /\ pwa = PwaUnmounted
    /\ localStorage = NoKeys
    /\ modal = ModalMounted(1, 0)
    /\ guide = GuideUnmounted

NextResolve ==
    /\ out = NoResp
    /\ \E ok \in BOOLEAN :
          \/ SendRequest("a", ok, Audiences, AllLists, Types)
          \/ \E id \in NotifIdInputs : GetNotificationById("a", ok, id)
          \/ \E id \in NotifIdInputs : DeleteNotification("a", ok, id)

SpecResolve == InitResolve /\ [][NextResolve]_vars

(* SpecPWA: either version of the install banner in a browser whose clock  *)
(* advances: page loads and React's effects, resizes, the browser's        *)
(* install events, the dismiss, install and download buttons, the install  *)
(* prompt, the user's choice and the answer to the download's fetch.       *)
InitPWA ==
    /\ users = Population
    /\ notifications = {}
    /\ user_notifications = {}
    /\ nextId = 1
    /\ now = 0
    /\ ticks = 0
    /\ proc = [p \in Procs |-> Idle]
    /\ out = NoResp
    /\ faults = 0
    /\ \E v \in Variants : pwa = [PwaUnmounted EXCEPT !.variant = v]
    /\ localStorage = NoKeys
    /\ modal = ModalMounted(1, 0)
    /\ guide = GuideUnmounted

NextPWA ==
    \/ Tick
    \/ \E standalone \in BOOLEAN : PwaMount(standalone)
    \/ \E mobile \in BOOLEAN : PwaEffects(mobile)
    \/ PwaCheck
    \/ \E mobile \in BOOLEAN : PwaResize(mobile)
    \/ HandleBeforeInstallPrompt
    \/ HandleAppInstalled
    \/ HandleDismiss
    \/ HandleInstallClick
    \/ \E ok \in BOOLEAN : PromptSettles(ok)
    \/ \E accepted \in BOOLEAN : UserChoice(accepted)
    \/ HandleAPKDownload
    \/ FetchSettles

SpecPWA == InitPWA /\ [][NextPWA]_vars

----------------------------------------------------------------------------
(* ImageModal, client/components/ImageModal.tsx. The handlers exist only   *)
(* while the viewer is open (line 47); zoom levels are in hundredths.      *)

Min(a, b) == IF a < b THEN a ELSE b
Max(a, b) == IF a > b THEN a ELSE b

\* pointer coordinates of a mouse event, and the pan offsets kept in range
Coords == 0 .. MaxCoord
InPan(pos) ==
    /\ pos.x \in (0 - MaxPan) .. MaxPan
    /\ pos.y \in (0 - MaxPan) .. MaxPan

\* the state a handler leaves
ModalStep(m) ==
    /\ modal' = m
    /\ UNCHANGED <<server, pwa, localStorage, guide>>

\* the parent shows the viewer / hides it (onClose); the component stays
\* mounted and keeps its state
ModalOpen ==
    /\ ~modal.isOpen
    /\ modal' = [modal EXCEPT !.isOpen = TRUE]
    /\ UNCHANGED <<server, pwa, localStorage, guide>>

ModalClose ==
    /\ modal.isOpen
    /\ ModalStep([modal EXCEPT !.isOpen = FALSE])

\* variant: zoom in without the upper limit
HandleZoomIn_Unclamped ==
    /\ modal.isOpen
    /\ ModalStep([modal EXCEPT !.zoomLevel = @ + ZoomStep])

\* lines 49-51
HandleZoomIn ==
    /\ modal.isOpen
    /\ ModalStep([modal EXCEPT !.zoomLevel = Min(@ + ZoomStep, ZoomMax)])

\* variant: zoom out that leaves the pan offset alone
HandleZoomOut_KeepsPosition ==
    /\ modal.isOpen
    /\ ModalStep([modal EXCEPT !.zoomLevel = Max(@ - ZoomStep, ZoomMin)])

\* lines 53-59
HandleZoomOut ==
    /\ modal.isOpen
    /\ LET newZoom == Max(modal.zoomLevel - ZoomStep, ZoomMin)
       IN  ModalStep([modal EXCEPT
                        !.zoomLevel = newZoom,
                        !.position = IF newZoom = ZoomMin THEN Origin ELSE @])

\* lines 61-64
ResetZoom(m) == [m EXCEPT !.zoomLevel = ZoomMin, !.position = Origin]

HandleResetZoom ==
    /\ modal.isOpen
    /\ ModalStep(ResetZoom(modal))

\* lines 66-74: mouse-down on the image at (clientX, clientY)
HandleMouseDown(clientX, clientY) ==
    /\ modal.isOpen
    /\ ModalStep(IF modal.zoomLevel > ZoomMin
                 THEN [modal EXCEPT
                         !.isDragging = TRUE,
                         !.dragStart = [x |-> clientX - modal.position.x,
                                        y |-> clientY - modal.position.y]]
                 ELSE modal)

\* lines 76-83: mouse-move over the viewer at (clientX, clientY)
HandleMouseMove(clientX, clientY) ==
    LET moved == [x |-> clientX - modal.dragStart.x,
                  y |-> clientY - modal.dragStart.y]
    IN  /\ modal.isOpen
        /\ InPan(moved)
        /\ ModalStep(IF modal.isDragging /\ modal.zoomLevel > ZoomMin
                     THEN [modal EXCEPT !.position = moved]
                     ELSE modal)

\* lines 85-87: mouse-up over the viewer, or the pointer leaves it
HandleMouseUp ==
    /\ modal.isOpen
    /\ ModalStep([modal EXCEPT !.isDragging = FALSE])

\* variant: the next image is shown at the zoom and pan of the last one
NextImage_KeepsZoom ==
    /\ modal.isOpen
    /\ ModalStep(IF modal.currentIndex < modal.images - 1
                 THEN [modal EXCEPT !.currentIndex = @ + 1]
                 ELSE modal)

\* lines 106-111
NextImage ==
    /\ modal.isOpen
    /\ ModalStep(IF modal.currentIndex < modal.images - 1
                 THEN ResetZoom([modal EXCEPT !.currentIndex = @ + 1])
                 ELSE modal)

\* lines 113-118
PrevImage ==
    /\ modal.isOpen
    /\ ModalStep(IF modal.currentIndex > 0
                 THEN ResetZoom([modal EXCEPT !.currentIndex = @ - 1])
                 ELSE modal)

(* SpecModal: one image viewer, mounted with 1..MaxImages images at any    *)
(* initial index, under every order of its handlers.                       *)
InitModal ==
    /\ users = Population
    /\ notifications = {}
    /\ user_notifications = {}
    /\ nextId = 1
    /\ now = 0
    /\ ticks = 0
    /\ proc = [p \in Procs |-> Idle]
    /\ out = NoResp
    /\ faults = 0
    /\ pwa = PwaUnmounted
    /\ localStorage = NoKeys
    /\ guide = GuideUnmounted
    /\ \E images \in 1 .. MaxImages : \E initialIndex \in 0 .. images - 1 :
         modal = ModalMounted(images, initialIndex)

NextModal ==
    \/ ModalOpen
    \/ ModalClose
    \/ HandleZoomIn
    \/ HandleZoomOut
    \/ HandleResetZoom
    \/ \E clientX, clientY \in Coords : HandleMouseDown(clientX, clientY)
    \/ \E clientX, clientY \in Coords : HandleMouseMove(clientX, clientY)
    \/ HandleMouseUp
    \/ NextImage
    \/ PrevImage

SpecModal == InitModal /\ [][NextModal]_vars

----------------------------------------------------------------------------
(* PWAInstallPrompt, the iOS manual-install guide (notifications.ts lines  *)
(* 941-1060)                                                               *)

\* lines 1012-1017: the guide is on the screen
GuideShown(g) ==
    /\ g.mounted
    /\ ~g.isInstalled
    /\ g.showPrompt
    /\ g.ios

\* lines 959-1005, the mount effect: the component state and the
\* localStorage it leaves
GuideEffect(g, ls) ==
    IF g.standalone
    THEN [g |-> [g EXCEPT !.isInstalled = TRUE], ls |-> ls]
    ELSE IF ls.dismissed # Absent
    THEN [g |-> g, ls |-> ls]
    ELSE IF ls.installed
    THEN [g |-> [g EXCEPT !.isInstalled = TRUE], ls |-> ls]
    ELSE [g |-> [g EXCEPT !.timer = g.ios, !.listening = TRUE], ls |-> ls]

\* the component is mounted (again) in a window; a remount runs the cleanup
\* of lines 1001-1004 and starts from the useState defaults
GuideMount(standalone, ios) ==
    LET r == GuideEffect([GuideUnmounted EXCEPT !.mounted = TRUE,
                                                !.standalone = standalone,
                                                !.ios = ios],
                         localStorage)
    IN  /\ guide' = r.g
        /\ localStorage' = r.ls
        /\ UNCHANGED <<server, pwa, modal>>

\* lines 984-988: the two seconds of the iOS timer are over
GuideTimer ==
    /\ guide.timer
    /\ guide' = [guide EXCEPT
                   !.timer = FALSE,
                   !.showPrompt = IF localStorage.dismissed = Absent
                                  THEN TRUE ELSE @]
    /\ UNCHANGED <<server, pwa, localStorage, modal>>

\* lines 992-997: the browser reports the installation
GuideAppInstalled ==
    /\ guide.listening
    /\ guide' = [guide EXCEPT !.isInstalled = TRUE, !.showPrompt = FALSE]
    /\ localStorage' = [installed |-> TRUE, dismissed |-> Absent]
    /\ UNCHANGED <<server, pwa, modal>>

\* lines 1007-1010: the backdrop, the X or "Got it"
GuideDismiss ==
    /\ GuideShown(guide)
    /\ guide' = [guide EXCEPT !.showPrompt = FALSE]
    /\ localStorage' = [localStorage EXCEPT !.dismissed = now]
    /\ UNCHANGED <<server, pwa, modal>>

(* SpecGuide: the install guide in a browser whose clock advances: mounts  *)
(* and remounts, the timer, the appinstalled event, the dismiss buttons.   *)
NextGuide ==
    \/ Tick
    \/ \E standalone, ios \in BOOLEAN : GuideMount(standalone, ios)
    \/ GuideTimer
    \/ GuideAppInstalled
    \/ GuideDismiss

SpecGuide == Init /\ [][NextGuide]_vars

----------------------------------------------------------------------------
(* Properties *)

Send == "sendNotification"

\* the stored notifications written by sendNotification / by a helper
AdminRecords == {n \in notifications : n.createdBy = "admin"}
SystemRecords == {n \in notifications : n.createdBy = "system"}

\* the delivery-log records of notification id
LogsOf(id) == {r \in user_notifications : r.notificationId = id}

\* the number of user_notifications records of a user under a type tag
CountOf(coll, userId, tag) ==
    Cardinality({r \in coll : r.userId = userId /\ r.type = tag})

\* this step answers a request of handler op
AnswersNow(op) == out' # NoResp /\ out'.op = op

\* C1: a sendNotification request whose audience resolves to zero users is
\* answered 400 by the step that looked the users up, and that step leaves
\* notifications and user_notifications as they were; no request goes on to
\* the insert, and no record is stored, with an empty recipient set.
C1_ZeroRecipientsRejected ==
    /\ [](/\ \A p \in Procs :
               proc[p].op = Send =>
                   /\ Len(proc[p].recipients) > 0
                   /\ ResolveRecipients(users, proc[p].audience,
                                        proc[p].specificUsers) # {}
          /\ \A n \in AdminRecords :
               /\ n.recipientCount > 0
               /\ ResolveRecipients(users, n.audience, n.specificUsers) # {})
    /\ [][(/\ AnswersNow(Send)
           /\ proc["a"].pc = "idle"
           /\ out'.code # 500
           /\ out'.error # "Title and message are required")
          => /\ ResolveRecipients(users, out'.audience, Undefined) = {}
             /\ out'.code \in 400..499
             /\ notifications' = notifications
             /\ user_notifications' = user_notifications
             /\ nextId' = nextId]_vars

\* C1 witness: a request for an audience without users was just answered 400
C1_Witness ==
    /\ out.op = Send
    /\ out.code = 400
    /\ out.audience = "agents"
    /\ ResolveRecipients(users, "agents", Undefined) = {}
    /\ notifications = {}

\* the userType values the claim maps an audience tag to
ClaimedTypes(audience) ==
    IF audience = "buyers" THEN {"buyer"}
    ELSE IF audience = "sellers" THEN {"seller"}
    ELSE IF audience = "agents" THEN {"agent"}
    ELSE {"buyer", "seller", "agent"}

\* C2: for every audience tag other than "specific" the recipients found by
\* sendNotification are exactly the stored users whose userType the tag maps
\* to (buyers->buyer, sellers->seller, agents->agent, anything else->buyer,
\* seller or agent); a request is turned down for want of recipients only
\* when no stored user has such a type.
C2_AudienceMapping ==
    /\ [](\A p \in Procs :
            (proc[p].op = Send /\ proc[p].audience # "specific") =>
                /\ Range(proc[p].recipients) =
                      {u \in DOMAIN users :
                          users[u] \in ClaimedTypes(proc[p].audience)}
                /\ \A u \in Range(proc[p].recipients) :
                      users[u] \in {"buyer", "seller", "agent"}
                /\ \A i, j \in 1..Len(proc[p].recipients) :
                      i # j => proc[p].recipients[i] # proc[p].recipients[j])
    /\ [][(/\ AnswersNow(Send)
           /\ out'.error = "No recipients found for the selected audience"
           /\ out'.audience # "specific")
          => {u \in DOMAIN users : users[u] \in ClaimedTypes(out'.audience)} = {}]_vars

\* C2 witness: an "all" request found the buyer and left the admin account out
C2_Witness ==
    /\ proc["a"].op = Send
    /\ proc["a"].audience = "all"
    /\ users = <<"admin", "buyer">>
    /\ proc["a"].recipients = <<2>>

\* C3 (as claimed): a non-scheduled send of type "both" to N recipients with
\* no per-recipient failure stores deliveredCount = N, emailsSent = N and
\* pushNotificationsSent = N.
C3_BothCountsEqualN ==
    \A n \in AdminRecords :
        (n.type = "both" /\ n.status = "sent" /\ n.failedDeliveries = 0) =>
            /\ n.deliveredCount = n.recipientCount
            /\ n.emailsSent = n.recipientCount
            /\ n.pushNotificationsSent = n.recipientCount

\* C4 (as claimed): deliveredCount never exceeds recipientCount, in any
\* stored notification.
C4_DeliveredAtMostRecipients ==
    \A n \in notifications : n.deliveredCount <= n.recipientCount

\* C5 (as claimed): deliveredCount = emailsSent + pushNotificationsSent in
\* every stored notification, those of the helpers included.
C5_DeliveredIsChannelSum ==
    \A n \in notifications :
        n.deliveredCount = n.emailsSent + n.pushNotificationsSent

\* C5 (amended): a record written by sendNotification has deliveredCount =
\* emailsSent + pushNotificationsSent; a record written by a helper has
\* deliveredCount = emailsSent = pushNotificationsSent (0 when inserted, 1
\* after its delivered update), so there deliveredCount is half the sum.
C5_Amended ==
    /\ \A n \in AdminRecords :
          n.deliveredCount = n.emailsSent + n.pushNotificationsSent
    /\ \A n \in SystemRecords :
          /\ n.deliveredCount \in {0, 1}
          /\ n.emailsSent = n.deliveredCount
          /\ n.pushNotificationsSent = n.deliveredCount

\* C5 witness: a delivered helper record beside a delivered admin record
C5_Witness ==
    /\ \E n \in SystemRecords : n.deliveredCount = 1 /\ n.emailsSent = 1
    /\ \E n \in AdminRecords : n.deliveredCount = 2 /\ n.type = "email"

\* C6: when the aggregate update of a non-scheduled send completes, the
\* stored status is "failed" exactly when no recipient's delivery succeeded
\* (failedDeliveries = number of recipients), and "sent" when at least one
\* did.
C6_FailedIffAllFailed ==
    [][\A p \in Procs :
         (/\ proc[p].op = Send
          /\ proc[p].pc = "update"
          /\ AnswersNow(Send))
         => \A n \in notifications' :
              n._id = proc[p].notificationId =>
                LET delivered == Cardinality(LogsOf(n._id))
                    N == Len(proc[p].recipients)
                IN  /\ n.recipientCount = N
                    /\ n.failedDeliveries = N - delivered
                    /\ (n.status = "failed") = (delivered = 0)
                    /\ (delivered > 0) => n.status = "sent"
                    /\ n.status \in {"failed", "sent"}]_vars

\* C6 witness: the only recipient's delivery failed and the aggregate update
\* stored "failed"
C6_Witness ==
    \E n \in AdminRecords :
        /\ n.status = "failed"
        /\ n.recipientCount = 1
        /\ n.failedDeliveries = 1
        /\ n.errorDetails = <<2>>
        /\ LogsOf(n._id) = {}

Welcome == "sendWelcomeNotification"
PostRejected == "sendPostRejectedNotification"
Delete == "deleteNotification"

\* this step is the first of a call of helper op for user u, and the call
\* goes on
Proceeds(op, u) ==
    \E p \in Procs :
        /\ proc[p].pc = "idle"
        /\ proc'[p].op = op
        /\ proc'[p].userId = u

\* this step is the first of a call of helper op for user u, and the call
\* returns at once
ReturnsAtOnce(op, u) ==
    /\ AnswersNow(op)
    /\ out'.userId = u
    /\ proc' = proc

DbUnchanged ==
    /\ notifications' = notifications
    /\ user_notifications' = user_notifications
    /\ nextId' = nextId

\* C7: sendWelcomeNotification called again for a user after a call for
\* that user has finished: the user has one "welcome" and one "onboarding"
\* record, never two of either; the later call inserts nothing into
\* notifications or user_notifications and returns true.
C7_WelcomeTwice ==
    /\ [](\A u \in CalledForSeq :
            /\ CountOf(user_notifications, u, "welcome") <= 1
            /\ CountOf(user_notifications, u, "onboarding") <= 1
            /\ (\A p \in Procs : proc[p].op # Welcome) =>
                  CountOf(user_notifications, u, "onboarding") =
                      CountOf(user_notifications, u, "welcome"))
    /\ [][\A u \in CalledForSeq :
            (/\ Proceeds(Welcome, u) \/ ReturnsAtOnce(Welcome, u)
             /\ ObjectIdIsValid(u)
             /\ CountOf(user_notifications, u, "welcome") >= 1)
            => /\ ReturnsAtOnce(Welcome, u)
               /\ out'.ret = TRUE
               /\ out'.log = "skipping"
               /\ DbUnchanged
               /\ CountOf(user_notifications', u, "welcome") = 1
               /\ CountOf(user_notifications', u, "onboarding") = 1]_vars

\* C7 witness: the second call for user 1 has just returned true without
\* inserting; the user has one welcome and one onboarding record
C7_Witness ==
    /\ out.op = Welcome
    /\ out.userId = 1
    /\ out.ret = TRUE
    /\ out.log = "skipping"
    /\ CountOf(user_notifications, 1, "welcome") = 1
    /\ CountOf(user_notifications, 1, "onboarding") = 1
    /\ Cardinality(notifications) = 2

\* the "post_rejected" records of user u
RejectedOf(u) ==
    {r \in user_notifications : r.userId = u /\ r.type = "post_rejected"}

\* the time at which the sendPostRejectedNotification call of slot p read
\* the clock
CalledAt(p) == proc[p].since + OneDayMs

\* C8: a call of sendPostRejectedNotification takes the bound of its lookup
\* from the clock at the moment of the call (24 hours before it).  When the
\* lookup is served, a call made less than 24 hours after a "post_rejected"
\* record of the user was created inserts nothing and returns true; a call
\* made when the user's "post_rejected" records were all older than 24
\* hours goes on and inserts exactly one notification and one
\* user_notifications record (type "post_rejected", createdAt the time at
\* which the notification insert returned).  The age of a record is the age
\* of its createdAt at the moment of the call.
C8_RejectedWindow ==
    [][/\ \A u \in CalledForSeq :
            (Proceeds(PostRejected, u) \/ ReturnsAtOnce(PostRejected, u))
            => /\ DbUnchanged
               /\ ObjectIdIsValid(u) =>
                     \E p \in Procs :
                        /\ proc'[p].pc = "lookup"
                        /\ proc'[p].since = now - OneDayMs
       /\ \A p \in Procs :
            (/\ proc[p].op = PostRejected
             /\ proc[p].pc = "lookup"
             /\ proc'[p] # proc[p])
            => LET u == proc[p].userId IN
               /\ DbUnchanged
               /\ (\E r \in RejectedOf(u) : CalledAt(p) - r.createdAt < OneDayMs)
                  => /\ AnswersNow(PostRejected)
                     /\ out'.userId = u
                     /\ out'.ret = TRUE
                     /\ out'.log = "skipping"
               /\ (/\ RejectedOf(u) # {}
                   /\ \A r \in RejectedOf(u) :
                         CalledAt(p) - r.createdAt > OneDayMs)
                  => proc'[p].pc = "insert"
       /\ \A p \in Procs :
            (proc[p].op = PostRejected /\ proc'[p] # proc[p]) =>
               /\ proc[p].pc = "insert" =>
                     /\ notifications \subseteq notifications'
                     /\ Cardinality(notifications') = Cardinality(notifications) + 1
                     /\ user_notifications' = user_notifications
                     /\ proc'[p].createdAt = now
               /\ proc[p].pc = "log" =>
                     /\ notifications' = notifications
                     /\ user_notifications \subseteq user_notifications'
                     /\ Cardinality(user_notifications') =
                           Cardinality(user_notifications) + 1
                     /\ \A r \in user_notifications' \ user_notifications :
                           /\ r.userId = proc[p].userId
                           /\ r.type = "post_rejected"
                           /\ r.createdAt = proc[p].createdAt
                           /\ r.notificationId = proc[p].notificationId
               /\ proc[p].pc = "update" =>
                     /\ Cardinality(notifications') = Cardinality(notifications)
                     /\ user_notifications' = user_notifications
                     /\ out'.ret = TRUE]_vars

\* C8 witness: user 1 has two rejection records, the second written by a
\* call made more than 24 hours after the first
C8_Witness ==
    /\ out.op = PostRejected
    /\ out.ret = TRUE
    /\ out.log = "sent"
    /\ \E r1, r2 \in RejectedOf(1) : r2.createdAt - r1.createdAt > OneDayMs

\* a call inside the 24 hours has just been skipped
C8_WitnessSkipped ==
    /\ out.op = PostRejected
    /\ out.log = "skipping"
    /\ \E r \in RejectedOf(out.userId) : now - r.createdAt = OneHourMs

\* a call made inside the 24 hours has been skipped by a lookup served when
\* the user's only record was older than that
C8_WitnessServedLate ==
    /\ out.op = PostRejected
    /\ out.log = "skipping"
    /\ \A r \in RejectedOf(out.userId) : now - r.createdAt > OneDayMs

\* C9: deleteNotification with a well-formed identifier removes the
\* notification with that id (first step) and every user_notifications
\* record whose notificationId is that id (second step) and leaves every
\* other record of both collections as it was; with a malformed identifier
\* it answers 400 in its first step, before any storage call, and changes
\* nothing.
C9_DeleteCascade ==
    [][/\ \A p \in Procs :
            (proc[p].pc = "idle" /\ proc'[p].op = Delete) =>
               /\ ObjectIdIsValid(proc'[p].id)
               /\ notifications' =
                     {n \in notifications : n._id # proc'[p].id}
               /\ user_notifications' = user_notifications
       /\ \A p \in Procs :
            (proc[p].op = Delete /\ AnswersNow(Delete) /\ out'.code = 200) =>
               /\ user_notifications' =
                     {r \in user_notifications : r.notificationId # proc[p].id}
               /\ notifications' = notifications
               /\ \A n \in notifications' : n._id # proc[p].id
               /\ out'.notificationId = proc[p].id
       /\ \A p \in Procs, id \in NotifIdInputs :
            (~ObjectIdIsValid(id) /\ DeleteNotification(p, TRUE, id)) =>
               /\ AnswersNow(Delete)
               /\ out'.code \in 400..499
               /\ out'.notificationId = id
               /\ proc' = proc
               /\ faults' = faults
               /\ DbUnchanged
       /\ (AnswersNow(Delete) /\ out'.code \in 400..499) =>
               /\ ~ObjectIdIsValid(out'.notificationId)
               /\ proc' = proc
               /\ faults' = faults
               /\ DbUnchanged]_vars

\* C9 witness: after the first of two stored notifications was deleted with
\* its records, a request with a malformed identifier has been answered 400;
\* the second notification and its delivery logs are still there
C9_Witness ==
    /\ out.op = Delete
    /\ out.code = 400
    /\ ~ObjectIdIsValid(out.notificationId)
    /\ faults = 0
    /\ nextId = 3
    /\ \A n \in notifications : n._id = 2
    /\ \E n \in notifications : n.recipientCount = 2
    /\ Cardinality(LogsOf(2)) = 2
    /\ LogsOf(1) = {}

\* of two stored notifications the first was just deleted with its records;
\* the second and its delivery logs are still there
C9_WitnessCascade ==
    /\ out.op = Delete
    /\ out.code = 200
    /\ out.notificationId = 1
    /\ nextId = 3
    /\ \A n \in notifications : n._id = 2
    /\ \E n \in notifications : n.recipientCount = 2
    /\ Cardinality(LogsOf(2)) = 2
    /\ LogsOf(1) = {}

\* C10: the helpers' insert into user_notifications does not look at what is
\* stored: the step adds a record of the helper's tag for the user whether or
\* not one exists, so two calls whose lookups both ran first leave the user
\* with two "welcome" (or two "post_rejected") records.
C10_InsertNotAtomicWithCheck ==
    [][\A p \in Procs :
         (/\ proc[p].op \in {Welcome, PostRejected}
          /\ proc[p].pc = "log"
          /\ proc'[p].pc = "update")
         => LET tag == IF proc[p].op = Welcome THEN "welcome" ELSE "post_rejected"
                u == proc[p].userId
            IN  CountOf(user_notifications', u, tag) =
                    CountOf(user_notifications, u, tag) + 1]_vars

\* C10 witness: user 1 has two "welcome" records
C10_Witness ==
    CountOf(user_notifications, 1, "welcome") > 1

\* user 1 has two "post_rejected" records created at the same instant
C10_WitnessRejected ==
    \E r1, r2 \in RejectedOf(1) :
        r1 # r2 /\ r1.createdAt = r2.createdAt

PostCreated == "sendPostCreatedNotification"
Helpers == {Welcome, PostCreated, PostRejected}

\* C11: a helper call never raises: every step of a call either goes on to
\* the call's next storage step (its storage call returned) or ends the call
\* with a boolean and no error response; the boolean is false exactly when
\* the step's storage call threw or the user identifier could not be
\* converted, and true otherwise.
C11_HelpersReturnBoolean ==
    [][/\ \A p \in Procs :
            (proc[p].op \in Helpers /\ proc'[p] # proc[p]) =>
               \/ /\ proc'[p].op = proc[p].op
                  /\ out' = NoResp
                  /\ faults' = faults
               \/ /\ proc'[p] = Idle
                  /\ out'.op = proc[p].op
                  /\ out'.code = 0
                  /\ out'.ret \in BOOLEAN
                  /\ out'.ret = (faults' = faults)
       /\ \A p \in Procs :
            (proc[p].pc = "idle" /\ proc'[p].op \in Helpers) =>
               /\ ObjectIdIsValid(proc'[p].userId)
               /\ faults' = faults
               /\ out' = NoResp
       /\ \A op \in Helpers :
            (AnswersNow(op) /\ proc' = proc) =>
               /\ out'.code = 0
               /\ out'.ret \in BOOLEAN
               /\ out'.ret = (faults' = faults /\ ObjectIdIsValid(out'.userId))]_vars

\* C11 witness: a post-created call whose log insert threw has returned
\* false, leaving its notification undelivered
C11_Witness ==
    /\ out.op = PostCreated
    /\ out.ret = FALSE
    /\ out.error = "caught"
    /\ faults = 1
    /\ \E n \in SystemRecords : n.deliveredCount = 0 /\ LogsOf(n._id) = {}

\* C12 (as claimed): a request with audience "specific" that gets past the
\* users lookup has a non-empty list of identifiers and every recipient's id
\* is in that list (a request with an empty or absent list resolves to nobody
\* and is turned down); the specificUsers it will store is the supplied list.
C12_SpecificFromListOnly ==
    \A p \in Procs :
        (proc[p].op = Send /\ proc[p].audience = "specific") =>
            /\ NonEmptyList(proc[p].specificUsers)
            /\ Range(proc[p].recipients) \subseteq
                  Range(TheValue(proc[p].specificUsers))

\* C13: a request with scheduledTime ends at its insert: the step stores the
\* record with status "scheduled" and zero counters, writes no
\* user_notifications record and answers "scheduled" without entering the
\* loop; afterwards a "scheduled" record has no delivery log and stays as it
\* is in every step, unless a deleteNotification step removes it.
C13_ScheduledSkipsLoop ==
    /\ [](\A n \in notifications :
            n.status = "scheduled" =>
                /\ n.createdBy = "admin"
                /\ n.deliveredCount = 0
                /\ n.emailsSent = 0
                /\ n.pushNotificationsSent = 0
                /\ n.failedDeliveries = 0
                /\ LogsOf(n._id) = {})
    /\ [][/\ \A p \in Procs :
               (/\ proc[p].op = Send
                /\ proc[p].pc = "insert"
                /\ proc[p].scheduled
                /\ faults' = faults
                /\ proc'[p] # proc[p])
               => /\ proc'[p] = Idle
                  /\ out'.op = Send
                  /\ out'.code = 200
                  /\ out'.status = "scheduled"
                  /\ user_notifications' = user_notifications
                  /\ \E n \in notifications' \ notifications :
                        /\ n._id = out'.notificationId
                        /\ n.status = "scheduled"
                        /\ n.recipientCount = out'.recipientCount
          /\ \A n \in notifications :
               n.status = "scheduled" =>
                  \/ n \in notifications'
                  \/ /\ \A m \in notifications' : m._id # n._id
                     /\ \E p \in Procs :
                           proc'[p].op = Delete /\ proc'[p].id = n._id]_vars

\* C13 witness: a scheduled record is still "scheduled", without logs, after
\* a later immediate send to the same audience has completed
C13_Witness ==
    /\ out.op = Send
    /\ out.status = "sent"
    /\ out.notificationId = 2
    /\ \E n \in notifications :
          /\ n._id = 1
          /\ n.status = "scheduled"
          /\ n.recipientCount = 2
    /\ Cardinality(LogsOf(2)) = 2

\* the users whose delivery log of notification id is stored
LoggedUsers(id) == {r.userId : r \in LogsOf(id)}

\* C14: in the recipient loop every step handles the next recipient and goes
\* on, whether its log insert returned or threw: a success adds that
\* recipient's log, a failure adds one to failedDeliveries and one
\* errorDetails entry naming the recipient; the record stored by the
\* aggregate update has failedDeliveries + (recipients with a stored log) =
\* recipientCount and one errorDetails entry per failed recipient.
C14_LoopIsolatesFailures ==
    /\ [](\A p \in Procs :
            (proc[p].op = Send /\ proc[p].pc \in {"loop", "update"}) =>
               LET s == proc[p]
                   N == Len(s.recipients)
                   done == {s.recipients[k] : k \in 1..(s.i - 1)}
               IN  /\ s.i \in 1..(N + 1)
                   /\ (s.pc = "update") = (s.i = N + 1)
                   /\ LoggedUsers(s.notificationId) \cup Range(s.errorDetails) = done
                   /\ LoggedUsers(s.notificationId) \cap Range(s.errorDetails) = {}
                   /\ Cardinality(LogsOf(s.notificationId)) + s.failedDeliveries
                         = s.i - 1
                   /\ Len(s.errorDetails) = s.failedDeliveries)
    /\ [][\A p \in Procs :
            LET s == proc[p]
                t == proc'[p]
                N == Len(s.recipients)
            IN
            /\ (s.op = Send /\ s.pc = "loop" /\ t # s) =>
                  /\ t.op = Send
                  /\ t.i = s.i + 1
                  /\ t.pc = IF s.i = N THEN "update" ELSE "loop"
                  /\ out' = NoResp
                  /\ notifications' = notifications
                  /\ IF faults' = faults
                     THEN /\ LoggedUsers(s.notificationId)' =
                                LoggedUsers(s.notificationId) \cup {s.recipients[s.i]}
                          /\ t.failedDeliveries = s.failedDeliveries
                          /\ t.errorDetails = s.errorDetails
                     ELSE /\ user_notifications' = user_notifications
                          /\ t.failedDeliveries = s.failedDeliveries + 1
                          /\ t.errorDetails = Append(s.errorDetails, s.recipients[s.i])
            /\ (s.op = Send /\ s.pc = "update" /\ AnswersNow(Send)) =>
                  \E n \in notifications' :
                     /\ n._id = s.notificationId
                     /\ n.recipientCount = N
                     /\ n.failedDeliveries + Cardinality(LogsOf(n._id)) = N
                     /\ Len(n.errorDetails) = n.failedDeliveries
                     /\ Range(n.errorDetails) = Range(s.recipients) \ LoggedUsers(n._id)]_vars

\* C14 witness: the first of two recipients failed, the second was still
\* delivered, and the aggregate update recorded one failure
C14_Witness ==
    /\ out.op = Send
    /\ out.code = 200
    /\ \E n \in AdminRecords :
          /\ n._id = out.notificationId
          /\ n.recipientCount = 2
          /\ n.failedDeliveries = 1
          /\ n.errorDetails = <<1>>
          /\ LoggedUsers(n._id) = {2}
          /\ n.status = "sent"

\* the record of the request of slot p is stored with status "failed", no
\* delivery counted and every recipient counted as failed
StoredFailed(p) ==
    \E n \in notifications' :
        /\ n._id = proc[p].notificationId
        /\ n.status = "failed"
        /\ n.deliveredCount = 0
        /\ n.emailsSent = 0
        /\ n.pushNotificationsSent = 0
        /\ n.failedDeliveries = Len(proc[p].recipients)
        /\ n.failedDeliveries = n.recipientCount

\* C15 (as claimed): a request whose aggregate update threw ends with its
\* record stored as "failed", deliveredCount 0, emailsSent 0,
\* pushNotificationsSent 0 and failedDeliveries = number of recipients.
C15_LoopLevelFailure ==
    [][\A p \in Procs :
         (proc[p].op = Send /\ proc[p].pc = "catch" /\ proc'[p] # proc[p])
         => StoredFailed(p)]_vars

\* C15 (amended): when the aggregate update throws, the request enters the
\* catch block with the record as the insert left it.  If the catch block's
\* update returns, the record is stored with status "failed", emailsSent 0,
\* pushNotificationsSent 0 and failedDeliveries = number of recipients, and
\* deliveredCount is still the 0 of the insert, whatever the loop delivered.
\* If that update throws as well, the request is answered 500 and the
\* record stays "pending" with the counts of the insert.
C15_Amended ==
    /\ [](\A p \in Procs :
            (proc[p].op = Send /\ proc[p].pc = "catch") =>
               \A n \in notifications :
                  n._id = proc[p].notificationId =>
                     /\ n.status = "pending"
                     /\ n.deliveredCount = 0)
    /\ [][\A p \in Procs :
            LET s == proc[p]
                t == proc'[p]
            IN
            /\ (s.op = Send /\ s.pc = "update" /\ faults' # faults) =>
                  /\ t.op = Send
                  /\ t.pc = "catch"
                  /\ notifications' = notifications
            /\ (s.op = Send /\ s.pc = "catch" /\ t # s /\ faults' = faults) =>
                  /\ StoredFailed(p)
                  /\ \A n \in notifications :
                        n._id # s.notificationId => n \in notifications'
                  /\ user_notifications' = user_notifications
            /\ (s.op = Send /\ s.pc = "catch" /\ t # s /\ faults' # faults) =>
                  /\ AnswersNow(Send)
                  /\ out'.code = 500
                  /\ notifications' = notifications
                  /\ user_notifications' = user_notifications]_vars

\* C15 witness: both recipients were delivered, the aggregate update threw,
\* and the record ended "failed" with zeroed counts
C15_Witness ==
    \E n \in AdminRecords :
        /\ n.status = "failed"
        /\ n.deliveredCount = 0
        /\ n.emailsSent = 0
        /\ n.failedDeliveries = 2
        /\ n.errorDetails = <<0>>
        /\ Cardinality(LogsOf(n._id)) = 2

\* both updates threw: the request was answered 500 and its record is left
\* "pending" beside the delivery logs of both recipients
C15_WitnessPending ==
    /\ out.op = Send
    /\ out.code = 500
    /\ faults = 2
    /\ \E n \in AdminRecords :
          /\ n.status = "pending"
          /\ Cardinality(LogsOf(n._id)) = 2

GetById == "getNotificationById"

\* a supplied list that holds a malformed identifier
HasMalformed(specificUsers) ==
    /\ specificUsers # Undefined
    /\ \E s \in Range(TheValue(specificUsers)) : ~ObjectIdIsValid(s)

\* C16 (as claimed): a request carrying an identifier of invalid format is
\* answered 4xx and writes nothing, in getNotificationById, in
\* deleteNotification and in sendNotification with a "specific" list that
\* holds a malformed identifier.
C16_MalformedIdIs4xx ==
    [][\A p \in Procs, ok \in BOOLEAN :
         /\ \A id \in NotifIdInputs :
              (~ObjectIdIsValid(id) /\ GetNotificationById(p, ok, id)) =>
                 /\ out'.op = GetById
                 /\ out'.code \in 400..499
                 /\ DbUnchanged
         /\ \A id \in NotifIdInputs :
              (~ObjectIdIsValid(id) /\ DeleteNotification(p, ok, id)) =>
                 /\ out'.op = Delete
                 /\ out'.code \in 400..499
                 /\ DbUnchanged
         /\ \A specificUsers \in AllLists, type \in Types, scheduled \in BOOLEAN :
              (/\ HasMalformed(specificUsers)
               /\ SendFind(p, ok, TRUE, type, "specific", specificUsers,
                           scheduled)) =>
                 /\ out'.op = Send
                 /\ out'.code \in 400..499
                 /\ DbUnchanged]_vars

\* C17 (as claimed): a request addressing a well-formed identifier that
\* matches no stored notification is answered 404: getNotificationById by
\* its lookup step, deleteNotification by whichever step answers the request
\* (the identifier was never issued, so no step of the request found it).
C17_UnknownIdIs404 ==
    [][\A p \in Procs :
         /\ \A id \in NotifIdInputs :
              (/\ ObjectIdIsValid(id)
               /\ FindOne(notifications, id) = {}
               /\ GetNotificationById(p, TRUE, id)) =>
                  /\ out'.op = GetById
                  /\ out'.code = 404
         /\ (/\ proc[p].op = Delete
             /\ proc[p].id >= nextId
             /\ AnswersNow(Delete)
             /\ faults' = faults) =>
                  out'.code = 404]_vars

\* the part of C17 about getNotificationById alone
C17_GetUnknownIdIs404 ==
    [][\A p \in Procs, id \in NotifIdInputs :
         (/\ ObjectIdIsValid(id)
          /\ FindOne(notifications, id) = {}
          /\ GetNotificationById(p, TRUE, id)) =>
             /\ out'.op = GetById
             /\ out'.code = 404
             /\ DbUnchanged]_vars

\* the dismissal marker is set and less than 24 hours old
FreshDismissal ==
    /\ localStorage.dismissed # Absent
    /\ now - localStorage.dismissed < OneDayMs

\* C18 (as claimed): while the dismissal marker is less than 24 hours old
\* the banner is not on the screen, whatever happened since the dismissal
\* (remount, resize, beforeinstallprompt); a mount that finds a marker 24
\* hours old or older removes it.
C18_DismissalCoolDown ==
    /\ [](FreshDismissal => ~Rendered(pwa))
    /\ [][\A mobile \in BOOLEAN :
            (/\ localStorage.dismissed # Absent
             /\ ~FreshDismissal
             /\ PwaEffects(mobile))
            => localStorage'.dismissed = Absent]_vars

\* the part of C18 about what the mount check does with the marker: a
\* standalone window removes it; otherwise a recorded installation or a
\* marker less than 24 hours old keeps the banner away and the marker in
\* place, and an older marker is removed
C18_MountCheckHonoursMarker ==
    [][\A mobile \in BOOLEAN :
         (/\ localStorage.dismissed # Absent
          /\ PwaEffects(mobile))
         => IF pwa.standalone
            THEN localStorage'.dismissed = Absent
            ELSE IF localStorage.installed \/ FreshDismissal
            THEN ~Rendered(pwa') /\ localStorage' = localStorage
            ELSE localStorage'.dismissed = Absent]_vars

\* C19: in the image viewer, after any sequence of zoom-in, zoom-out, reset,
\* drag and navigation, zoomLevel is a multiple of 0.25 between 1 and 4.
C19_ZoomInRange ==
    /\ modal.zoomLevel \in ZoomMin .. ZoomMax
    /\ modal.zoomLevel % ZoomStep = 0

\* the viewer is at the upper limit, panned, on its second image
C19_Witness ==
    /\ modal.isOpen
    /\ modal.zoomLevel = ZoomMax
    /\ modal.position # Origin
    /\ modal.currentIndex = 1

\* C20: at zoomLevel 1 the pan offset is (0, 0); a mouse-move changes the
\* pan offset only while a drag is in progress and zoomLevel is above 1, and
\* a drag is started by a mouse-down at a zoomLevel above 1 only.
C20_PanOnlyAboveOne ==
    /\ [](modal.zoomLevel = ZoomMin => modal.position = Origin)
    /\ [][(/\ \E clientX, clientY \in Coords :
                HandleMouseMove(clientX, clientY)
           /\ modal'.position # modal.position)
          => modal.isDragging /\ modal.zoomLevel > ZoomMin]_vars
    /\ [][(~modal.isDragging /\ modal'.isDragging)
          => /\ \E clientX, clientY \in Coords :
                  HandleMouseDown(clientX, clientY)
             /\ modal.zoomLevel > ZoomMin]_vars

\* the image was panned, a second drag started from the panned offset, and
\* zooming out to 1 with the button still held put the offset back to (0, 0)
C20_Witness ==
    /\ modal.zoomLevel = ZoomMin
    /\ modal.position = Origin
    /\ modal.isDragging
    /\ modal.dragStart.x < 0

\* user u holds a dashboard entry of type tag, written at or after since,
\* whose notification is about property pr
NotifiedAbout(u, tag, since, pr) ==
    \E r \in user_notifications :
        /\ r.userId = u
        /\ r.type = tag
        /\ r.createdAt # Absent
        /\ r.createdAt >= since
        /\ \E n \in notifications :
               n._id = r.notificationId /\ n.about = pr

\* C21 (as claimed): the dedupe lookups are per property: a call about a
\* property the user was not notified about inside the window (1 hour for
\* post_created, 24 hours for post_rejected) goes on to create the
\* notification, whatever the user was told about other properties.
C21_DedupePerProperty ==
    [][\A pr \in TwoProperties :
         LET s == proc["a"] IN
         /\ (/\ PostCreatedLookup("a", TRUE)
             /\ s.userId = 1 /\ s.propertyId = pr
             /\ ~NotifiedAbout(1, "post_created", s.since, pr))
            => proc'["a"].pc = "insert"
         /\ (/\ PostRejectedLookup("a", TRUE)
             /\ s.userId = 1 /\ s.propertyId = pr
             /\ ~NotifiedAbout(1, "post_rejected", s.since, pr))
            => proc'["a"].pc = "insert"]_vars

\* C22 (as claimed): a dismissal suppresses the install guide for 24 hours
\* only: a mount in an iOS browser window more than 24 hours after the
\* dismissal, with the app not installed, starts the timer that shows the
\* guide.
C22_GuideComesBack ==
    [][(/\ localStorage.dismissed # Absent
        /\ now - localStorage.dismissed > OneDayMs
        /\ ~localStorage.installed
        /\ GuideMount(FALSE, TRUE))
       => guide'.timer]_vars

\* what the mount does with a dismissal marker, whatever its age: nothing
C22_DismissalIsForGood ==
    [][\A ios \in BOOLEAN :
         (localStorage.dismissed # Absent /\ GuideMount(FALSE, ios))
         => /\ ~guide'.timer /\ ~guide'.listening /\ ~GuideShown(guide')
            /\ localStorage' = localStorage]_vars

\* C23: in the image viewer currentIndex stays inside the image list; it is
\* changed by nextImage and prevImage only, by one, and every such change
\* puts zoomLevel back to 1 and the pan offset to (0, 0); nextImage at the
\* last image and prevImage at the first change nothing.
C23_NavigationResets ==
    /\ [](modal.currentIndex \in 0 .. modal.images - 1)
    /\ [][modal'.currentIndex # modal.currentIndex
          => /\ modal'.zoomLevel = ZoomMin
             /\ modal'.position = Origin
             /\ \/ NextImage /\ modal'.currentIndex = modal.currentIndex + 1
                \/ PrevImage /\ modal'.currentIndex = modal.currentIndex - 1]_vars
    /\ [][(NextImage /\ modal.currentIndex = modal.images - 1)
          => modal' = modal]_vars
    /\ [][(PrevImage /\ modal.currentIndex = 0) => modal' = modal]_vars

\* the second of two images at zoom 1, reached while a drag that began on a
\* zoomed and panned image is still held
C23_Witness ==
    /\ modal.isOpen
    /\ modal.images = 2
    /\ modal.currentIndex = 1
    /\ modal.zoomLevel = ZoomMin
    /\ modal.position = Origin
    /\ modal.isDragging
    /\ modal.dragStart.y < 0

\* C24: once an installation is recorded (appinstalled event, accepted
\* install prompt, or standalone display mode at a page load) the stored
\* flag "pwa-installed" is set and stays set, and the banner is not on the
\* screen in any later state, whatever events and page loads follow.
C24_InstalledStaysHidden ==
    /\ [](localStorage.installed => ~Rendered(pwa))
    /\ [][(\/ HandleAppInstalled
           \/ UserChoice(TRUE)
           \/ \E mobile \in BOOLEAN : pwa.standalone /\ PwaEffects(mobile))
          => localStorage'.installed /\ pwa'.isInstalled]_vars
    /\ [][localStorage.installed => localStorage'.installed]_vars

\* after the installation: a browser window on a mobile device in which a
\* beforeinstallprompt event has arrived since the page was loaded
C24_Witness ==
    /\ localStorage.installed
    /\ pwa.mounted
    /\ ~pwa.standalone
    /\ pwa.isMobile
    /\ pwa.deferredPrompt
    /\ pwa.showInstallButton
    /\ pwa.isVisible

\* C25 (as claimed): prompt() is called at most once on a captured
\* beforeinstallprompt event, in either version of the banner, whatever the
\* order of Install clicks, prompt results and choices.
C25_PromptOncePerEvent == pwa.promptCalls <= 1

\* C25 for PWAInstallButton.tsx alone, and for part_000 alone
C25_TsxPromptOnce == pwa.variant = "tsx" => pwa.promptCalls <= 1
C25_AltPromptOnce == pwa.variant = "part_000" => pwa.promptCalls <= 1

\* in part_000 a second call of prompt() on an event follows a prompt() that
\* threw: no two calls are suspended at once
C25_AltOneAtATime == pwa.variant = "part_000" => Suspended(pwa) <= 1

\* C26 (as claimed): when sendNotification answers with success, the status
\* in the answer is the status stored for that notification at that moment.
C26_AnswerMatchesStored ==
    (out.op = Send /\ out.code = 200)
    => \E n \in notifications :
           n._id = out.notificationId /\ n.status = out.status

\* the part of C26 that holds: a success answer is given for a stored record
\* that is not "pending", and a "scheduled" answer for a "scheduled" record
C26_AnswerNeverPending ==
    (out.op = Send /\ out.code = 200)
    => \E n \in notifications :
           /\ n._id = out.notificationId
           /\ n.status \in {"sent", "failed", "scheduled"}
           /\ (n.status = "scheduled") = (out.status = "scheduled")

\* the sendNotification request of slot p is past its recipient loop, at the
\* aggregate update or at the update of the catch block, for notification id
PastLoop(p, id) ==
    /\ proc[p].op = Send
    /\ proc[p].notificationId = id
    /\ proc[p].pc \in {"update", "catch"}
    /\ proc[p].i = Len(proc[p].recipients) + 1

\* C27: a record of sendNotification is stored as "pending" or "scheduled";
\* its status changes only from "pending" to "sent" or "failed", in a step
\* of its own request after the whole recipient loop; so a "sent", "failed"
\* or "scheduled" record keeps its status, and a "pending" record whose
\* request stopped between the insert and the update stays "pending".
C27_StatusMovesForward ==
    /\ [][\A m \in notifications' :
            (m.createdBy = "admin"
             /\ \A n \in notifications : n._id # m._id)
            => /\ m.status \in {"pending", "scheduled"}
               /\ (m.status = "scheduled") = proc["a"].scheduled]_vars
    /\ [][\A n \in notifications : \A m \in notifications' :
            (n._id = m._id /\ n.status # m.status)
            => /\ n.status = "pending"
               /\ m.status \in {"sent", "failed"}
               /\ PastLoop("a", n._id)]_vars

\* a record left "pending": its request stopped, and another request has
\* been served to the end since
C27_Witness ==
    /\ \E n \in AdminRecords : n.status = "pending" /\ n._id = 1
    /\ \E n \in AdminRecords : n.status \in {"sent", "failed"} /\ n._id = 2
    /\ proc["a"].pc = "idle"

\* every user_notifications record refers to a stored notification
Referenced ==
    \A r \in user_notifications :
        \E n \in notifications : n._id = r.notificationId

\* C28 (as claimed): while no deleteNotification request is between its two
\* deletes and no storage call has thrown, every user_notifications record
\* refers to a stored notification, also when a deleteNotification ran while
\* a helper was still writing the records of the deleted notification.
C28_NoOrphanLogs ==
    (faults = 0 /\ proc["b"].op # Delete) => Referenced

\* the same when requests do not overlap
C28_NoOrphanLogsSerial ==
    (faults = 0 /\ proc["a"].op # Delete) => Referenced

\* C29 (as claimed): when sendWelcomeNotification returns true for a user,
\* the user has a "welcome" and an "onboarding" user_notifications record,
\* also when an earlier call for the user failed part-way.
C29_WelcomeMeansBoth ==
    (out.op = Welcome /\ out.ret)
    => /\ CountOf(user_notifications, out.userId, "welcome") >= 1
       /\ CountOf(user_notifications, out.userId, "onboarding") >= 1

\* the same as long as no storage call has thrown, no notification was
\* deleted and the admin has sent no notification with type "welcome"
C29_WelcomeMeansBothUndisturbed ==
    (out.op = Welcome /\ out.ret /\ faults = 0
     /\ Cardinality(notifications) = nextId - 1
     /\ \A n \in AdminRecords : n.type # "welcome")
    => /\ CountOf(user_notifications, out.userId, "welcome") >= 1
       /\ CountOf(user_notifications, out.userId, "onboarding") >= 1

====
